---- MODULE Spec2Model ----
(***************************************************************************)
(* Substrate side of the token bridge (runtime/src/bridge.rs).             *)
(*                                                                         *)
(* Every storage item of decl_storage! is a variable.  A dispatchable is   *)
(* modelled as a function from the storage (a record of all variables)     *)
(* and its arguments to an outcome [ok, err, s]: s is the storage the call *)
(* leaves behind.  The pallet's storage is not transactional: a write made *)
(* before an `ensure!`/`?` fails stays written, so on an error s holds the *)
(* writes made up to the failing statement.                                *)
(***************************************************************************)
EXTENDS Integers, Sequences, FiniteSets, TLC

(* ------------------------------------------------------------------ *)
(* Program constants                                                   *)
(* ------------------------------------------------------------------ *)
MAX_VALIDATORS == 100000
DAY_IN_BLOCKS == 14400
DAY == 86400

(* accounts of the test fixture *)
V1 == 1
V2 == 2
V3 == 3
V4 == 4
USER1 == 5
USER2 == 6
TOKEN_ID == 0

(* genesis limits: max_tx_value, day_max_limit, day_max_limit_for_one_address,
   max_pending_tx_limit, min_tx_value *)
GenesisLimits ==
    [max_tx_value |-> 100, day_max_limit |-> 200,
     day_max_limit_for_one_address |-> 50, max_pending_tx_limit |-> 400,
     min_tx_value |-> 1]

(* ------------------------------------------------------------------ *)
(* Bounds of the model                                                 *)
(* ------------------------------------------------------------------ *)
(* largest committee the committee-size specification starts from *)
MaxCommittee == 3
(* executed mints / burns per message are counted up to this value *)
MaxEffects == 2
(* largest value of the (scaled down) balance type *)
BalanceMax == 1000000
(* proposals on chain in the specification of calls by any account *)
MaxProposals == 2
(* last day the clock reaches *)
MaxDay == 2

(* ------------------------------------------------------------------ *)
(* Value sets the inputs are drawn from                                *)
(* ------------------------------------------------------------------ *)
GenesisValidators == <<V1, V2, V3>>
Users == {USER2}
Tokens == {TOKEN_ID}
EthAddresses == {"E1", "E2"}
EthMessageIds == {"M1"}
InitialBalance == 600
WithdrawAmounts == {20}
DepositAmounts == {30}
(* the accounts that sign calls: validators, V4 and the users *)
Callers == {V1, V2, V3, V4, USER1, USER2}
(* the limits and the validator list that governance votes propose *)
ProposedLimits ==
    [max_tx_value |-> 90, day_max_limit |-> 200,
     day_max_limit_for_one_address |-> 50, max_pending_tx_limit |-> 400,
     min_tx_value |-> 1]
ExtendedValidators == <<V1, V2, V3, V4>>

(* T::Hash values.  A hash is a tuple of its preimage; tuples of different
   provenance have different lengths, so they never collide. *)
ZeroHash == <<>>
EthHash(m) == <<"eth", m>>
TransferHash(from, to, amount, now) == <<"xfer", from, to, amount, now>>
PauseHash == <<"pause">>
ResumeHash == <<"resume">>

(* ------------------------------------------------------------------ *)
(* Storage                                                             *)
(* ------------------------------------------------------------------ *)
VARIABLES
    BridgeIsOperational, BridgeMessages, LimitMessages, CurrentLimits,
    CurrentPendingBurn, CurrentPendingMint,
    BridgeTransfers, BridgeTransfersCount, TransferMessages, TransferId, MessageId,
    DailyHolds, DailyLimits, DailyBlocked,
    Quorum, ValidatorsCount, ValidatorVotes, ValidatorHistory, Validators,
    ValidatorAccounts,
    Balance, Locked, TotalSupply,   \* token module
    Now,                            \* timestamp module
    minted, burned,                 \* executed ledger mints / burns per message id
    escrowed,                       \* executed approval locks per message id
    reopened                        \* message id -> status that last reopened its proposal

storageVars ==
    <<BridgeIsOperational, BridgeMessages, LimitMessages, CurrentLimits,
      CurrentPendingBurn, CurrentPendingMint,
      BridgeTransfers, BridgeTransfersCount, TransferMessages, TransferId, MessageId,
      DailyHolds, DailyLimits, DailyBlocked,
      Quorum, ValidatorsCount, ValidatorVotes, ValidatorHistory, Validators,
      ValidatorAccounts, Balance, Locked, TotalSupply, Now>>

historyVars == <<minted, burned, escrowed, reopened>>

vars == <<storageVars, historyVars>>

(* the storage as one value, threaded through the functions of the pallet *)
Storage ==
    [BridgeIsOperational |-> BridgeIsOperational, BridgeMessages |-> BridgeMessages,
     LimitMessages |-> LimitMessages, CurrentLimits |-> CurrentLimits,
     CurrentPendingBurn |-> CurrentPendingBurn, CurrentPendingMint |-> CurrentPendingMint,
     BridgeTransfers |-> BridgeTransfers, BridgeTransfersCount |-> BridgeTransfersCount,
     TransferMessages |-> TransferMessages, TransferId |-> TransferId,
     MessageId |-> MessageId, DailyHolds |-> DailyHolds, DailyLimits |-> DailyLimits,
     DailyBlocked |-> DailyBlocked, Quorum |-> Quorum, ValidatorsCount |-> ValidatorsCount,
     ValidatorVotes |-> ValidatorVotes, ValidatorHistory |-> ValidatorHistory,
     Validators |-> Validators, ValidatorAccounts |-> ValidatorAccounts,
     Balance |-> Balance, Locked |-> Locked, TotalSupply |-> TotalSupply, Now |-> Now,
     minted |-> minted, burned |-> burned, escrowed |-> escrowed,
     reopened |-> reopened]

(* StorageMap::get / insert: a map is a function on the keys it contains,
   get of an absent key yields the value type's default *)
Get(map, k, default) == IF k \in DOMAIN map THEN map[k] ELSE default
Put(map, k, v) == [x \in (DOMAIN map) \cup {k} |-> IF x = k THEN v ELSE map[x]]
Remove(map, k) == [x \in (DOMAIN map) \ {k} |-> map[x]]

(* outcome of a function returning Result<()> *)
Ok(s) == [ok |-> TRUE, err |-> "", s |-> s]
Fail(s, e) == [ok |-> FALSE, err |-> e, s |-> s]
(* the `?` operator: continue with the storage left by r, or return its error *)
Then(r, F(_)) == IF r.ok THEN F(r.s) ELSE r

Min(a, b) == IF a < b THEN a ELSE b

(* ------------------------------------------------------------------ *)
(* Default values of the storage value types (types.rs)                *)
(* ------------------------------------------------------------------ *)
DefaultTransferMessage ==
    [message_id |-> ZeroHash, eth_address |-> "E0", substrate_address |-> 0,
     amount |-> 0, token |-> 0, status |-> "Withdraw", action |-> "Withdraw"]
DefaultLimitMessage ==
    [id |-> ZeroHash, limits |-> [max_tx_value |-> 0, day_max_limit |-> 0,
       day_max_limit_for_one_address |-> 0, max_pending_tx_limit |-> 0,
       min_tx_value |-> 0], status |-> "UpdateLimits"]
DefaultValidatorMessage ==
    [message_id |-> ZeroHash, quorum |-> 0, accounts |-> <<>>,
     action |-> "Revoked", status |-> "Revoked"]
DefaultBridgeMessage ==
    [message_id |-> ZeroHash, account |-> 0, action |-> "Revoked", status |-> "Revoked"]
DefaultBridgeTransfer ==
    [transfer_id |-> 0, message_id |-> ZeroHash, open |-> TRUE, votes |-> 0,
     kind |-> "Transfer"]
DefaultDailyHold == <<0, ZeroHash>>

(* ------------------------------------------------------------------ *)
(* Token module (ledger): balances, escrow and total supply            *)
(* ------------------------------------------------------------------ *)
balance_of(s, t, a) == Get(s.Balance, <<t, a>>, 0)
locked(s, t, a) == Get(s.Locked, <<t, a>>, 0)
total_supply(s, t) == Get(s.TotalSupply, t, 0)

token_mint(s, t, to, amount) ==
    IF t \notin Tokens THEN Fail(s, "Token not found")
    ELSE IF balance_of(s, t, to) + amount > BalanceMax
              \/ total_supply(s, t) + amount > BalanceMax
         THEN Fail(s, "Overflow adding to balance")
    ELSE Ok([s EXCEPT !.Balance = Put(@, <<t, to>>, balance_of(s, t, to) + amount),
                      !.TotalSupply = Put(@, t, total_supply(s, t) + amount)])

token_burn(s, t, from, amount) ==
    IF t \notin Tokens THEN Fail(s, "Token not found")
    ELSE IF balance_of(s, t, from) - locked(s, t, from) < amount
              \/ total_supply(s, t) < amount
         THEN Fail(s, "Not enough balance to burn")
    ELSE Ok([s EXCEPT !.Balance = Put(@, <<t, from>>, balance_of(s, t, from) - amount),
                      !.TotalSupply = Put(@, t, total_supply(s, t) - amount)])

token_lock(s, t, a, amount) ==
    IF t \notin Tokens THEN Fail(s, "Token not found")
    ELSE IF balance_of(s, t, a) - locked(s, t, a) < amount
         THEN Fail(s, "Not enough balance to lock")
    ELSE Ok([s EXCEPT !.Locked = Put(@, <<t, a>>, locked(s, t, a) + amount)])

token_unlock(s, t, a, amount) ==
    IF t \notin Tokens THEN Fail(s, "Token not found")
    ELSE IF locked(s, t, a) < amount THEN Fail(s, "Not enough locked funds")
    ELSE Ok([s EXCEPT !.Locked = Put(@, <<t, a>>, locked(s, t, a) - amount)])

(* ------------------------------------------------------------------ *)
(* Bridge module: internal functions                                   *)
(* ------------------------------------------------------------------ *)
update_status(s, id, status, kind) ==
    CASE kind = "Transfer" ->
           Ok([s EXCEPT !.TransferMessages = Put(@, id,
                 [Get(s.TransferMessages, id, DefaultTransferMessage) EXCEPT !.status = status])])
      [] kind = "Validator" ->
           Ok([s EXCEPT !.ValidatorHistory = Put(@, id,
                 [Get(s.ValidatorHistory, id, DefaultValidatorMessage) EXCEPT !.status = status])])
      [] kind = "Bridge" ->
           Ok([s EXCEPT !.BridgeMessages = Put(@, id,
                 [Get(s.BridgeMessages, id, DefaultBridgeMessage) EXCEPT !.status = status])])
      [] kind = "Limits" ->
           Ok([s EXCEPT !.LimitMessages = Put(@, id,
                 [Get(s.LimitMessages, id, DefaultLimitMessage) EXCEPT !.status = status])])

create_transfer(s, transfer_hash, kind) ==
    IF transfer_hash \in DOMAIN s.TransferId THEN Fail(s, "This transfer already open")
    ELSE LET transfer_id == s.BridgeTransfersCount
             transfer == [transfer_id |-> transfer_id, message_id |-> transfer_hash,
                          open |-> TRUE, votes |-> 0, kind |-> kind]
         IN Ok([s EXCEPT !.BridgeTransfers = Put(@, transfer_id, transfer),
                         !.BridgeTransfersCount = @ + 1,
                         !.TransferId = Put(@, transfer_hash, transfer_id),
                         !.MessageId = Put(@, transfer_id, transfer_hash)])

get_transfer_id_checked(s, transfer_hash, kind) ==
    IF transfer_hash \notin DOMAIN s.TransferId
    THEN create_transfer(s, transfer_hash, kind)
    ELSE Ok(s)

add_pending_burn(s, message) ==
    IF s.CurrentPendingBurn + message.amount > BalanceMax
    THEN Fail(s, "Overflow adding to new pending burn volume")
    ELSE Ok([s EXCEPT !.CurrentPendingBurn = @ + message.amount])

add_pending_mint(s, message) ==
    IF s.CurrentPendingMint + message.amount > BalanceMax
    THEN Fail(s, "Overflow adding to new pending mint volume")
    ELSE Ok([s EXCEPT !.CurrentPendingMint = @ + message.amount])

sub_pending_burn(s, message) ==
    IF s.CurrentPendingBurn < message.amount
    THEN Fail(s, "Overflow subtracting to new pending burn volume")
    ELSE Ok([s EXCEPT !.CurrentPendingBurn = @ - message.amount])

sub_pending_mint(s, message) ==
    IF s.CurrentPendingMint < message.amount
    THEN Fail(s, "Overflow subtracting to new pending mint volume")
    ELSE Ok([s EXCEPT !.CurrentPendingMint = @ - message.amount])

(* votes_are_enough deciding against the stored Quorum value *)
votes_are_enough_stored(s, votes) ==
    votes >= s.Quorum

(* votes as f64 / f64::from(validators_count) >= 0.51; a division by zero
   yields +inf for votes > 0 and NaN for votes = 0 *)
votes_are_enough(s, votes) ==
    IF s.ValidatorsCount = 0 THEN votes > 0
    ELSE votes * 100 >= s.ValidatorsCount * 51

check_validator(s, validator) ==
    IF validator \in s.Validators THEN Ok(s)
    ELSE Fail(s, "Only validators can call this function")

(* check_amount that lets the boundary values themselves pass *)
check_amount_inclusive(s, amount) ==
    IF ~(amount >= s.CurrentLimits.min_tx_value)
    THEN Fail(s, "Invalid amount for transaction. Reached minimum limit.")
    ELSE IF ~(amount <= s.CurrentLimits.max_tx_value)
    THEN Fail(s, "Invalid amount for transaction. Reached maximum limit.")
    ELSE Ok(s)

check_amount(s, amount) ==
    IF ~(amount > s.CurrentLimits.min_tx_value)
    THEN Fail(s, "Invalid amount for transaction. Reached minimum limit.")
    ELSE IF ~(amount < s.CurrentLimits.max_tx_value)
    THEN Fail(s, "Invalid amount for transaction. Reached maximum limit.")
    ELSE Ok(s)

(* check_pending_burn that lets the pending volume reach the limit *)
check_pending_burn_inclusive(s, amount) ==
    IF s.CurrentPendingBurn + amount > BalanceMax
    THEN Fail(s, "Overflow adding to new pending burn volume")
    ELSE IF ~(s.CurrentPendingBurn + amount <= s.CurrentLimits.max_pending_tx_limit)
    THEN Fail(s, "Too many pending burn transactions.")
    ELSE Ok(s)

check_pending_burn(s, amount) ==
    IF s.CurrentPendingBurn + amount > BalanceMax
    THEN Fail(s, "Overflow adding to new pending burn volume")
    ELSE IF ~(s.CurrentPendingBurn + amount < s.CurrentLimits.max_pending_tx_limit)
    THEN Fail(s, "Too many pending burn transactions.")
    ELSE Ok(s)

check_pending_mint(s, amount) ==
    IF s.CurrentPendingMint + amount > BalanceMax
    THEN Fail(s, "Overflow adding to new pending mint volume")
    ELSE IF ~(s.CurrentPendingMint + amount < s.CurrentLimits.max_pending_tx_limit)
    THEN Fail(s, "Too many pending mint transactions.")
    ELSE Ok(s)

(* Limits::into_array folded into (all below max_value, all above min_value) *)
check_limits(s, limits) ==
    LET fields == {limits.max_tx_value, limits.day_max_limit,
                   limits.day_max_limit_for_one_address,
                   limits.max_pending_tx_limit, limits.min_tx_value}
    IN IF \E l \in fields : ~(l < BalanceMax) THEN Fail(s, "Overflow setting limit")
       ELSE IF \E l \in fields : ~(l > 0) THEN Fail(s, "Underflow setting limit")
       ELSE Ok(s)

(* the balance type's `+`: wraps around above the largest value *)
BalanceAdd(a, b) == (a + b) % (BalanceMax + 1)

(* (yesterday, today) *)
get_day_pair(s) ==
    <<IF s.Now < DAY THEN 0 ELSE (s.Now \div DAY) - 1, s.Now \div DAY>>

(* check_daily_account_volume that does not look at today's blocklist *)
check_daily_account_volume_unlisted(s, token_id, account, amount) ==
    LET cur_pending == Get(s.DailyLimits, <<token_id, account>>, 0)
        can_burn == BalanceAdd(cur_pending, amount)
                      < s.CurrentLimits.day_max_limit_for_one_address
        today == get_day_pair(s)[2]
        blocked == Get(s.DailyBlocked, <<token_id, today>>, <<>>)
        user_blocked == \E i \in 1..Len(blocked) : blocked[i] = account
        s1 == IF can_burn THEN s
              ELSE [s EXCEPT !.DailyBlocked = Put(@, <<token_id, today>>,
                      IF user_blocked THEN blocked ELSE Append(blocked, account))]
    IN IF can_burn THEN Ok(s1)
       ELSE Fail(s1, "Transfer declined, user blocked due to daily volume limit.")

check_daily_account_volume(s, token_id, account, amount) ==
    LET cur_pending == Get(s.DailyLimits, <<token_id, account>>, 0)
        can_burn == BalanceAdd(cur_pending, amount)
                      < s.CurrentLimits.day_max_limit_for_one_address
        today == get_day_pair(s)[2]
        blocked == Get(s.DailyBlocked, <<token_id, today>>, <<>>)
        user_blocked == \E i \in 1..Len(blocked) : blocked[i] = account
        s1 == IF can_burn THEN s
              ELSE [s EXCEPT !.DailyBlocked = Put(@, <<token_id, today>>,
                      IF user_blocked THEN blocked ELSE Append(blocked, account))]
    IN IF can_burn /\ ~user_blocked THEN Ok(s1)
       ELSE Fail(s1, "Transfer declined, user blocked due to daily volume limit.")

check_daily_holds(s, message) ==
    LET from == message.substrate_address
        first_tx == Get(s.DailyHolds, from, DefaultDailyHold)
        \* BlockNumber is unsigned: the sum is never below zero
        day_passed == first_tx[1] + DAY_IN_BLOCKS < 0
        account_balance == balance_of(s, message.token, from)
        allowed_amount == (account_balance \div 100) * 75
    IN IF ~day_passed /\ message.amount > allowed_amount
       THEN Fail(update_status(s, message.message_id, "Canceled", "Transfer").s,
                 "Cannot withdraw more that 75% of first day deposit.")
       ELSE Ok(s)

lock_for_burn(s, message, account) ==
    token_lock(s, message.token, account, message.amount)

Count(map, k) == Put(map, k, Min(Get(map, k, 0) + 1, MaxEffects))

deposit(s, message) ==
    Then(sub_pending_mint(s, message), LAMBDA s1 :
      LET to == message.substrate_address
          s2 == IF to \notin DOMAIN s1.DailyHolds
                THEN [s1 EXCEPT !.DailyHolds = Put(@, to, <<0, message.message_id>>)]
                ELSE s1
      IN Then(token_mint(s2, message.token, to, message.amount), LAMBDA s3 :
           update_status([s3 EXCEPT !.minted = Count(@, message.message_id)],
                         message.message_id, "Confirmed", "Transfer")))

withdraw(s, message) ==
    Then(check_daily_holds(s, message), LAMBDA s1 :
    Then(sub_pending_burn(s1, message), LAMBDA s2 :
    Then(lock_for_burn(s2, message, message.substrate_address), LAMBDA s3 :
      update_status([s3 EXCEPT !.escrowed = Count(@, message.message_id)],
                    message.message_id, "Approved", "Transfer"))))

_cancel_transfer(s, message) ==
    Then(token_unlock(s, message.token, message.substrate_address, message.amount),
         LAMBDA s1 : update_status(s1, message.message_id, "Canceled", "Transfer"))

pause_the_bridge(s, message) ==
    update_status([s EXCEPT !.BridgeIsOperational = FALSE],
                  message.message_id, "Confirmed", "Bridge")

resume_the_bridge(s, message) ==
    update_status([s EXCEPT !.BridgeIsOperational = TRUE],
                  message.message_id, "Confirmed", "Bridge")

_update_limits(s, message) ==
    Then(check_limits(s, message.limits), LAMBDA s1 :
      update_status([s1 EXCEPT !.CurrentLimits = message.limits],
                    message.id, "Confirmed", "Limits"))

Range(seq) == {seq[i] : i \in 1..Len(seq)}

manage_validator_list(s, info) ==
    LET new_count == Len(info.accounts)
    IN IF ~(new_count < MAX_VALIDATORS)
       THEN Fail(s, "New validator list is exceeding allowed length.")
       ELSE update_status([s EXCEPT !.Quorum = info.quorum,
                                    !.ValidatorsCount = new_count,
                                    !.Validators = @ \cup Range(info.accounts)],
                          info.message_id, "Confirmed", "Validator")

(* the balance type's `-=`: wraps around below zero *)
BalanceSub(a, b) == IF a >= b THEN a - b ELSE a - b + BalanceMax + 1

execute_burn(s, message_id) ==
    LET message == Get(s.TransferMessages, message_id, DefaultTransferMessage)
        from == message.substrate_address
    IN Then(token_unlock(s, message.token, from, message.amount), LAMBDA s1 :
       Then(token_burn(s1, message.token, from, message.amount), LAMBDA s2 :
         Ok([s2 EXCEPT !.DailyLimits = Put(@, <<message.token, from>>,
                          BalanceSub(Get(s2.DailyLimits, <<message.token, from>>, 0),
                                     message.amount)),
                       !.burned = Count(@, message_id)])))

execute_transfer(s, message) ==
    CASE message.action = "Deposit" ->
           (CASE message.status = "Approved" -> deposit(s, message)
              [] message.status = "Canceled" -> _cancel_transfer(s, message)
              [] OTHER -> Fail(s, "Tried to deposit with non-supported status"))
      [] message.action = "Withdraw" ->
           (CASE message.status = "Confirmed" -> execute_burn(s, message.message_id)
              [] message.status = "Approved" -> withdraw(s, message)
              [] message.status = "Canceled" -> _cancel_transfer(s, message)
              [] OTHER -> Fail(s, "Tried to withdraw with non-supported status"))
      [] OTHER -> Fail(s, "Tried to execute transfer with non-supported status")

manage_bridge(s, message) ==
    CASE message.action = "PauseTheBridge" ->
           (IF message.status = "Approved" THEN pause_the_bridge(s, message)
            ELSE Fail(s, "Tried to pause the bridge with non-supported status"))
      [] message.action = "ResumeTheBridge" ->
           (IF message.status = "Approved" THEN resume_the_bridge(s, message)
            ELSE Fail(s, "Tried to resume the bridge with non-supported status"))
      [] OTHER -> Fail(s, "Tried to manage bridge with non-supported status")

set_pending(s, transfer_id, kind) ==
    LET message_id == Get(s.MessageId, transfer_id, ZeroHash)
        message == Get(s.TransferMessages, message_id, DefaultTransferMessage)
        r == IF kind = "Transfer"
             THEN CASE message.action = "Withdraw" -> add_pending_burn(s, message)
                    [] message.action = "Deposit" -> add_pending_mint(s, message)
                    [] OTHER -> Ok(s)
             ELSE Ok(s)
    IN Then(r, LAMBDA s1 : update_status(s1, message_id, "Pending", kind))

reopen_for_burn_confirmation(s, message_id) ==
    LET message == Get(s.TransferMessages, message_id, DefaultTransferMessage)
        transfer_id == Get(s.TransferId, message_id, 0)
        transfer == Get(s.BridgeTransfers, transfer_id, DefaultBridgeTransfer)
        is_eth_response == message.status = "Confirmed" \/ message.status = "Canceled"
    IN IF ~transfer.open /\ is_eth_response
       THEN Ok([s EXCEPT !.BridgeTransfers =
                           Put(@, transfer_id, [transfer EXCEPT !.votes = 0, !.open = TRUE]),
                         !.ValidatorVotes =
                           @ \ {<<transfer_id, a>> : a \in Range(s.ValidatorAccounts)},
                         !.reopened = Put(@, message_id, message.status)])
       ELSE Ok(s)

(* ------------------------------------------------------------------ *)
(* The voting engine                                                   *)
(* ------------------------------------------------------------------ *)
(* _sign without the special case for Confirmed / Canceled messages *)
_sign_unsettled(s, validator, transfer_id) ==
    LET transfer == Get(s.BridgeTransfers, transfer_id, DefaultBridgeTransfer)
        message == Get(s.TransferMessages, transfer.message_id, DefaultTransferMessage)
        limit_message == Get(s.LimitMessages, transfer.message_id, DefaultLimitMessage)
        validator_message ==
            Get(s.ValidatorHistory, transfer.message_id, DefaultValidatorMessage)
        bridge_message == Get(s.BridgeMessages, transfer.message_id, DefaultBridgeMessage)
        voted == <<transfer_id, validator>> \in s.ValidatorVotes
        votes == transfer.votes + 1
        settled == FALSE
        Approved(m) == IF settled THEN m ELSE [m EXCEPT !.status = "Approved"]
        Record(s1, open) ==
            Ok([s1 EXCEPT !.ValidatorVotes = @ \cup {<<transfer_id, validator>>},
                          !.BridgeTransfers = Put(@, transfer_id,
                              [transfer EXCEPT !.votes = votes, !.open = open])])
    IN IF voted THEN Fail(s, "This validator has already voted.")
       ELSE IF ~transfer.open THEN Fail(s, "This transfer is not open")
       ELSE IF votes_are_enough(s, votes)
       THEN Then(CASE transfer.kind = "Transfer" -> execute_transfer(s, Approved(message))
                   [] transfer.kind = "Limits" -> _update_limits(s, Approved(limit_message))
                   [] transfer.kind = "Validator" ->
                        manage_validator_list(s, Approved(validator_message))
                   [] transfer.kind = "Bridge" -> manage_bridge(s, Approved(bridge_message)),
                 LAMBDA s1 : Record(s1, FALSE))
       ELSE Then(IF settled THEN Ok(s) ELSE set_pending(s, transfer_id, transfer.kind),
                 LAMBDA s1 : Record(s1, TRUE))

(* _sign without the check that the proposal is open *)
_sign_any_round(s, validator, transfer_id) ==
    LET transfer == Get(s.BridgeTransfers, transfer_id, DefaultBridgeTransfer)
        message == Get(s.TransferMessages, transfer.message_id, DefaultTransferMessage)
        limit_message == Get(s.LimitMessages, transfer.message_id, DefaultLimitMessage)
        validator_message ==
            Get(s.ValidatorHistory, transfer.message_id, DefaultValidatorMessage)
        bridge_message == Get(s.BridgeMessages, transfer.message_id, DefaultBridgeMessage)
        voted == <<transfer_id, validator>> \in s.ValidatorVotes
        votes == transfer.votes + 1
        settled == message.status \in {"Confirmed", "Canceled"}
        Approved(m) == IF settled THEN m ELSE [m EXCEPT !.status = "Approved"]
        Record(s1, open) ==
            Ok([s1 EXCEPT !.ValidatorVotes = @ \cup {<<transfer_id, validator>>},
                          !.BridgeTransfers = Put(@, transfer_id,
                              [transfer EXCEPT !.votes = votes, !.open = open])])
    IN IF voted THEN Fail(s, "This validator has already voted.")
       ELSE IF votes_are_enough(s, votes)
       THEN Then(CASE transfer.kind = "Transfer" -> execute_transfer(s, Approved(message))
                   [] transfer.kind = "Limits" -> _update_limits(s, Approved(limit_message))
                   [] transfer.kind = "Validator" ->
                        manage_validator_list(s, Approved(validator_message))
                   [] transfer.kind = "Bridge" -> manage_bridge(s, Approved(bridge_message)),
                 LAMBDA s1 : Record(s1, FALSE))
       ELSE Then(IF settled THEN Ok(s) ELSE set_pending(s, transfer_id, transfer.kind),
                 LAMBDA s1 : Record(s1, TRUE))

_sign(s, validator, transfer_id) ==
    LET transfer == Get(s.BridgeTransfers, transfer_id, DefaultBridgeTransfer)
        message == Get(s.TransferMessages, transfer.message_id, DefaultTransferMessage)
        limit_message == Get(s.LimitMessages, transfer.message_id, DefaultLimitMessage)
        validator_message ==
            Get(s.ValidatorHistory, transfer.message_id, DefaultValidatorMessage)
        bridge_message == Get(s.BridgeMessages, transfer.message_id, DefaultBridgeMessage)
        voted == <<transfer_id, validator>> \in s.ValidatorVotes
        votes == transfer.votes + 1
        \* burn is confirmed or canceled
        settled == message.status \in {"Confirmed", "Canceled"}
        Approved(m) == IF settled THEN m ELSE [m EXCEPT !.status = "Approved"]
        Record(s1, open) ==
            Ok([s1 EXCEPT !.ValidatorVotes = @ \cup {<<transfer_id, validator>>},
                          !.BridgeTransfers = Put(@, transfer_id,
                              [transfer EXCEPT !.votes = votes, !.open = open])])
    IN IF voted THEN Fail(s, "This validator has already voted.")
       ELSE IF ~transfer.open THEN Fail(s, "This transfer is not open")
       ELSE IF votes_are_enough(s, votes)
       THEN Then(CASE transfer.kind = "Transfer" -> execute_transfer(s, Approved(message))
                   [] transfer.kind = "Limits" -> _update_limits(s, Approved(limit_message))
                   [] transfer.kind = "Validator" ->
                        manage_validator_list(s, Approved(validator_message))
                   [] transfer.kind = "Bridge" -> manage_bridge(s, Approved(bridge_message)),
                 LAMBDA s1 : Record(s1, FALSE))
       ELSE Then(IF settled THEN Ok(s) ELSE set_pending(s, transfer_id, transfer.kind),
                 LAMBDA s1 : Record(s1, TRUE))

(* ------------------------------------------------------------------ *)
(* Dispatchables                                                       *)
(* ------------------------------------------------------------------ *)
set_transfer(s, from, to, token_id, amount) ==
    IF ~s.BridgeIsOperational THEN Fail(s, "Bridge is not operational")
    ELSE
    Then(check_amount(s, amount), LAMBDA s1 :
    Then(check_pending_burn(s1, amount), LAMBDA s2 :
    Then(check_daily_account_volume(s2, token_id, from, amount), LAMBDA s3 :
      LET transfer_hash == TransferHash(from, to, amount, s3.Now)
          message == [message_id |-> transfer_hash, eth_address |-> to,
                      substrate_address |-> from, amount |-> amount, token |-> token_id,
                      status |-> "Withdraw", action |-> "Withdraw"]
      IN Then(get_transfer_id_checked(s3, transfer_hash, "Transfer"), LAMBDA s4 :
           Ok([s4 EXCEPT !.DailyLimits = Put(@, <<token_id, from>>,
                            BalanceAdd(Get(s4.DailyLimits, <<token_id, from>>, 0), amount)),
                         !.TransferMessages = Put(@, transfer_hash, message)])))))

multi_signed_mint(s, validator, message_id, from, to, token_id, amount) ==
    IF ~s.BridgeIsOperational THEN Fail(s, "Bridge is not operational")
    ELSE
    Then(check_validator(s, validator), LAMBDA s1 :
    Then(check_pending_mint(s1, amount), LAMBDA s2 :
    Then(check_amount(s2, amount), LAMBDA s3 :
      LET message == [message_id |-> message_id, eth_address |-> from,
                      substrate_address |-> to, amount |-> amount, token |-> token_id,
                      status |-> "Deposit", action |-> "Deposit"]
          r == IF message_id \notin DOMAIN s3.TransferMessages
               THEN get_transfer_id_checked(
                      [s3 EXCEPT !.TransferMessages = Put(@, message_id, message)],
                      message_id, "Transfer")
               ELSE Ok(s3)
      IN Then(r, LAMBDA s4 : _sign(s4, validator, Get(s4.TransferId, message_id, 0))))))

LimitsHash(limits) ==
    <<"limits", limits.max_tx_value, limits.day_max_limit,
      limits.day_max_limit_for_one_address, limits.max_pending_tx_limit,
      limits.min_tx_value>>

(* update_limits without check_limits before the proposal is created *)
update_limits_unchecked(s, validator, limits) ==
    Then(check_validator(s, validator), LAMBDA s2 :
      LET id == LimitsHash(limits)
          message == [id |-> id, limits |-> limits, status |-> "UpdateLimits"]
          r == IF id \notin DOMAIN s2.LimitMessages
               THEN get_transfer_id_checked(
                      [s2 EXCEPT !.LimitMessages = Put(@, id, message)], id, "Limits")
               ELSE Ok(s2)
      IN Then(r, LAMBDA s3 : _sign(s3, validator, Get(s3.TransferId, id, 0))))

update_limits(s, validator, limits) ==
    Then(check_validator(s, validator), LAMBDA s1 :
    Then(check_limits(s1, limits), LAMBDA s2 :
      LET id == LimitsHash(limits)
          message == [id |-> id, limits |-> limits, status |-> "UpdateLimits"]
          r == IF id \notin DOMAIN s2.LimitMessages
               THEN get_transfer_id_checked(
                      [s2 EXCEPT !.LimitMessages = Put(@, id, message)], id, "Limits")
               ELSE Ok(s2)
      IN Then(r, LAMBDA s3 : _sign(s3, validator, Get(s3.TransferId, id, 0)))))

(* approve_transfer without the check that the caller is a validator *)
approve_transfer_unchecked(s, validator, message_id) ==
    IF ~s.BridgeIsOperational THEN Fail(s, "Bridge is not operational")
    ELSE _sign(s, validator, Get(s.TransferId, message_id, 0))

(* approve_transfer without the check that the bridge is operational *)
approve_transfer_paused(s, validator, message_id) ==
    Then(check_validator(s, validator), LAMBDA s1 :
      _sign(s1, validator, Get(s1.TransferId, message_id, 0)))

approve_transfer(s, validator, message_id) ==
    IF ~s.BridgeIsOperational THEN Fail(s, "Bridge is not operational")
    ELSE Then(check_validator(s, validator), LAMBDA s1 :
           _sign(s1, validator, Get(s1.TransferId, message_id, 0)))

update_validator_list(s, validator, message_id, quorum, new_validator_list) ==
    Then(check_validator(s, validator), LAMBDA s1 :
      LET message == [message_id |-> message_id, quorum |-> quorum,
                      accounts |-> new_validator_list,
                      action |-> "UpdateValidatorSet", status |-> "UpdateValidatorSet"]
          r == IF message_id \notin DOMAIN s1.ValidatorHistory
               THEN get_transfer_id_checked(
                      [s1 EXCEPT !.ValidatorHistory = Put(@, message_id, message)],
                      message_id, "Validator")
               ELSE Ok(s1)
      IN Then(r, LAMBDA s2 : _sign(s2, validator, Get(s2.TransferId, message_id, 0))))

(* pause_bridge without the check that the bridge is still operational *)
pause_bridge_again(s, validator) ==
    Then(check_validator(s, validator), LAMBDA s1 :
      LET hash == PauseHash
          message == [message_id |-> hash, account |-> validator,
                      action |-> "PauseTheBridge", status |-> "PauseTheBridge"]
          r == IF hash \notin DOMAIN s1.BridgeMessages
               THEN get_transfer_id_checked(
                      [s1 EXCEPT !.BridgeMessages = Put(@, hash, message)], hash, "Bridge")
               ELSE Ok(s1)
      IN Then(r, LAMBDA s2 : _sign(s2, validator, Get(s2.TransferId, hash, 0))))

pause_bridge(s, validator) ==
    Then(check_validator(s, validator), LAMBDA s1 :
      IF ~s1.BridgeIsOperational THEN Fail(s1, "Bridge is not operational already")
      ELSE
      LET hash == PauseHash
          message == [message_id |-> hash, account |-> validator,
                      action |-> "PauseTheBridge", status |-> "PauseTheBridge"]
          r == IF hash \notin DOMAIN s1.BridgeMessages
               THEN get_transfer_id_checked(
                      [s1 EXCEPT !.BridgeMessages = Put(@, hash, message)], hash, "Bridge")
               ELSE Ok(s1)
      IN Then(r, LAMBDA s2 : _sign(s2, validator, Get(s2.TransferId, hash, 0))))

resume_bridge(s, validator) ==
    Then(check_validator(s, validator), LAMBDA s1 :
      LET hash == ResumeHash
          message == [message_id |-> hash, account |-> validator,
                      action |-> "ResumeTheBridge", status |-> "ResumeTheBridge"]
          r == IF hash \notin DOMAIN s1.BridgeMessages
               THEN get_transfer_id_checked(
                      [s1 EXCEPT !.BridgeMessages = Put(@, hash, message)], hash, "Bridge")
               ELSE Ok(s1)
      IN Then(r, LAMBDA s2 : _sign(s2, validator, Get(s2.TransferId, hash, 0))))

(* confirm_transfer without the check that the transfer was approved *)
confirm_transfer_unapproved(s, validator, message_id) ==
    IF ~s.BridgeIsOperational THEN Fail(s, "Bridge is not operational")
    ELSE
    Then(check_validator(s, validator), LAMBDA s1 :
      LET id == Get(s1.TransferId, message_id, 0)
      IN Then(update_status(s1, message_id, "Confirmed", "Transfer"), LAMBDA s2 :
         Then(reopen_for_burn_confirmation(s2, message_id), LAMBDA s3 :
           _sign(s3, validator, id))))

(* confirm_transfer writing the Confirmed status before it checks the
   approval *)
confirm_transfer_write_first(s, validator, message_id) ==
    IF ~s.BridgeIsOperational THEN Fail(s, "Bridge is not operational")
    ELSE
    Then(check_validator(s, validator), LAMBDA s1 :
      LET id == Get(s1.TransferId, message_id, 0)
          status == Get(s1.TransferMessages, message_id, DefaultTransferMessage).status
          is_approved == status = "Approved" \/ status = "Confirmed"
      IN Then(update_status(s1, message_id, "Confirmed", "Transfer"), LAMBDA s2 :
           IF ~is_approved THEN Fail(s2, "This transfer must be approved first.")
           ELSE Then(reopen_for_burn_confirmation(s2, message_id), LAMBDA s3 :
                  _sign(s3, validator, id))))

confirm_transfer(s, validator, message_id) ==
    IF ~s.BridgeIsOperational THEN Fail(s, "Bridge is not operational")
    ELSE
    Then(check_validator(s, validator), LAMBDA s1 :
      LET id == Get(s1.TransferId, message_id, 0)
          status == Get(s1.TransferMessages, message_id, DefaultTransferMessage).status
          is_approved == status = "Approved" \/ status = "Confirmed"
      IN IF ~is_approved THEN Fail(s1, "This transfer must be approved first.")
         ELSE Then(update_status(s1, message_id, "Confirmed", "Transfer"), LAMBDA s2 :
              Then(reopen_for_burn_confirmation(s2, message_id), LAMBDA s3 :
                _sign(s3, validator, id))))

(* cancel_transfer without the check that the transfer was executed *)
cancel_transfer_executed(s, validator, message_id) ==
    Then(check_validator(s, validator), LAMBDA s1 :
      LET id == Get(s1.TransferId, message_id, 0)
      IN Then(update_status(s1, message_id, "Canceled", "Transfer"), LAMBDA s2 :
         Then(reopen_for_burn_confirmation(s2, message_id), LAMBDA s3 :
           _sign(s3, validator, id))))

cancel_transfer(s, validator, message_id) ==
    Then(check_validator(s, validator), LAMBDA s1 :
      LET has_burned ==
              /\ message_id \in DOMAIN s1.TransferMessages
              /\ s1.TransferMessages[message_id].status = "Confirmed"
          id == Get(s1.TransferId, message_id, 0)
      IN IF has_burned
         THEN Fail(s1, "Failed to cancel. This transfer is already executed.")
         ELSE Then(update_status(s1, message_id, "Canceled", "Transfer"), LAMBDA s2 :
              Then(reopen_for_burn_confirmation(s2, message_id), LAMBDA s3 :
                _sign(s3, validator, id))))

(* ------------------------------------------------------------------ *)
(* The state machine                                                   *)
(* ------------------------------------------------------------------ *)
(* the accounts blocked yesterday get their daily volume removed, and
   yesterday's blocklist is removed; nothing happens during the first day *)
RECURSIVE on_finalize_tokens(_, _, _)
on_finalize_tokens(s, tokens, yesterday) ==
    IF tokens = {} THEN s
    ELSE LET t == CHOOSE x \in tokens : TRUE
             is_first_day == get_day_pair(s)[2] = yesterday
             blocked_yesterday == Get(s.DailyBlocked, <<t, yesterday>>, <<>>)
             accounts == {<<t, a>> : a \in Range(blocked_yesterday)}
             s1 == IF <<t, yesterday>> \in DOMAIN s.DailyBlocked /\ ~is_first_day
                   THEN [s EXCEPT
                           !.DailyLimits = [k \in DOMAIN @ \ accounts |-> @[k]],
                           !.DailyBlocked = Remove(@, <<t, yesterday>>)]
                   ELSE s
         IN on_finalize_tokens(s1, tokens \ {t}, yesterday)

(* on_finalize looking at the blocklist of today instead of yesterday's *)
on_finalize_today(s) == on_finalize_tokens(s, Tokens, get_day_pair(s)[2])

on_finalize(s) == on_finalize_tokens(s, Tokens, get_day_pair(s)[1])

(* timestamp::set at the start of a block *)
set_timestamp(s, now) == [s EXCEPT !.Now = now]

(* genesis with the committee `accounts`; USER2 holds `balance` of the token *)
GenesisWith(accounts, balance, limits) ==
    /\ BridgeIsOperational = TRUE
    /\ BridgeMessages = <<>>
    /\ LimitMessages = <<>>
    /\ CurrentLimits = limits
    /\ CurrentPendingBurn = 0
    /\ CurrentPendingMint = 0
    /\ BridgeTransfers = <<>>
    /\ BridgeTransfersCount = 0
    /\ TransferMessages = <<>>
    /\ TransferId = <<>>
    /\ MessageId = <<>>
    /\ DailyHolds = <<>>
    /\ DailyLimits = <<>>
    /\ DailyBlocked = <<>>
    /\ Quorum = 2
    /\ ValidatorsCount = Len(accounts)
    /\ ValidatorVotes = {}
    /\ ValidatorHistory = <<>>
    /\ Validators = Range(accounts)
    /\ ValidatorAccounts = accounts
    /\ Balance = [k \in {<<TOKEN_ID, USER2>>} |-> balance]
    /\ Locked = <<>>
    /\ TotalSupply = [k \in {TOKEN_ID} |-> balance]
    /\ Now = 0
    /\ minted = <<>>
    /\ burned = <<>>
    /\ escrowed = <<>>
    /\ reopened = <<>>

(* genesis with the limits of the test configuration *)
GenesisHolding(accounts, balance) == GenesisWith(accounts, balance, GenesisLimits)

(* genesis with the committee `accounts`; USER2 holds InitialBalance of the
   token, as at the start of the withdraw tests *)
Genesis(accounts) == GenesisHolding(accounts, InitialBalance)

Init == Genesis(GenesisValidators)

(* a dispatched call leaves the storage of its outcome, also when it fails *)
Commit(out) ==
    /\ BridgeIsOperational' = out.s.BridgeIsOperational
    /\ BridgeMessages' = out.s.BridgeMessages
    /\ LimitMessages' = out.s.LimitMessages
    /\ CurrentLimits' = out.s.CurrentLimits
    /\ CurrentPendingBurn' = out.s.CurrentPendingBurn
    /\ CurrentPendingMint' = out.s.CurrentPendingMint
    /\ BridgeTransfers' = out.s.BridgeTransfers
    /\ BridgeTransfersCount' = out.s.BridgeTransfersCount
    /\ TransferMessages' = out.s.TransferMessages
    /\ TransferId' = out.s.TransferId
    /\ MessageId' = out.s.MessageId
    /\ DailyHolds' = out.s.DailyHolds
    /\ DailyLimits' = out.s.DailyLimits
    /\ DailyBlocked' = out.s.DailyBlocked
    /\ Quorum' = out.s.Quorum
    /\ ValidatorsCount' = out.s.ValidatorsCount
    /\ ValidatorVotes' = out.s.ValidatorVotes
    /\ ValidatorHistory' = out.s.ValidatorHistory
    /\ Validators' = out.s.Validators
    /\ ValidatorAccounts' = out.s.ValidatorAccounts
    /\ Balance' = out.s.Balance
    /\ Locked' = out.s.Locked
    /\ TotalSupply' = out.s.TotalSupply
    /\ Now' = out.s.Now
    /\ minted' = out.s.minted
    /\ burned' = out.s.burned
    /\ escrowed' = out.s.escrowed
    /\ reopened' = out.s.reopened

SetTransfer(from, to, token_id, amount) ==
    Commit(set_transfer(Storage, from, to, token_id, amount))

MultiSignedMint(validator, message_id, from, to, token_id, amount) ==
    Commit(multi_signed_mint(Storage, validator, message_id, from, to, token_id, amount))

ApproveTransfer(validator, message_id) ==
    Commit(approve_transfer(Storage, validator, message_id))

ConfirmTransfer(validator, message_id) ==
    Commit(confirm_transfer(Storage, validator, message_id))

CancelTransfer(validator, message_id) ==
    Commit(cancel_transfer(Storage, validator, message_id))

PauseBridge(validator) ==
    Commit(pause_bridge(Storage, validator))

ResumeBridge(validator) ==
    Commit(resume_bridge(Storage, validator))

UpdateLimits(validator, limits) ==
    Commit(update_limits(Storage, validator, limits))

UpdateValidatorList(validator, message_id, quorum, new_validator_list) ==
    Commit(update_validator_list(Storage, validator, message_id, quorum,
                                 new_validator_list))

(* ids of the transfer messages on chain, which validators vote on *)
KnownIds == DOMAIN TransferMessages

(* --- transfers under the genesis committee ------------------------- *)
DoSetTransfer(addresses) ==
    \E from \in Users, to \in addresses, amount \in WithdrawAmounts :
        SetTransfer(from, to, TOKEN_ID, amount)
DoMultiSignedMint(ids) ==
    \E v \in Validators, m \in ids, to \in Users,
       amount \in DepositAmounts :
        MultiSignedMint(v, EthHash(m), "E1", to, TOKEN_ID, amount)
DoApproveTransfer ==
    \E v \in Validators, id \in KnownIds : ApproveTransfer(v, id)
DoConfirmTransfer ==
    \E v \in Validators, id \in KnownIds : ConfirmTransfer(v, id)
DoCancelTransfer ==
    \E v \in Validators, id \in KnownIds : CancelTransfer(v, id)

Next ==
    \/ DoSetTransfer({"E1"})
    \/ DoMultiSignedMint(EthMessageIds)
    \/ DoApproveTransfer
    \/ DoConfirmTransfer
    \/ DoCancelTransfer

Spec == Init /\ [][Next]_vars

(* --- two withdrawals of one account (different recipients) ---------- *)
NextEscrow ==
    \/ DoSetTransfer(EthAddresses)
    \/ DoApproveTransfer
    \/ DoConfirmTransfer
    \/ DoCancelTransfer

SpecEscrow == Init /\ [][NextEscrow]_vars

(* --- deposits under every committee size up to MaxCommittee --------- *)
InitCommittee == \E n \in 1..MaxCommittee : Genesis([i \in 1..n |-> i])

NextCommittee ==
    \/ DoSetTransfer({"E1"})
    \/ DoMultiSignedMint(EthMessageIds)
    \/ DoApproveTransfer
    \/ DoConfirmTransfer
    \/ DoCancelTransfer

SpecCommittee == InitCommittee /\ [][NextCommittee]_vars

(* --- transfers before and after the committee pauses the bridge ----- *)
DoPauseBridge == \E v \in Validators : PauseBridge(v)

NextPause ==
    \/ DoPauseBridge
    \/ DoSetTransfer({"E1"})
    \/ DoMultiSignedMint(EthMessageIds)
    \/ DoApproveTransfer
    \/ DoConfirmTransfer

SpecPause == Init /\ [][NextPause]_vars

(* --- a withdrawal while the committee is extended by V4 ------------- *)
ListHash(l) == <<"list", l>>
DoUpdateValidatorList ==
    \E v \in Validators :
        UpdateValidatorList(v, ListHash("L1"), 3, ExtendedValidators)

NextValidators ==
    \/ DoUpdateValidatorList
    \/ DoSetTransfer({"E1"})
    \/ DoApproveTransfer
    \/ DoCancelTransfer

SpecValidators == Init /\ [][NextValidators]_vars

(* --- pause / resume cycles of the committee -------------------------- *)
DoResumeBridge == \E v \in Validators : ResumeBridge(v)

NextCycle ==
    \/ DoPauseBridge
    \/ DoResumeBridge
    \/ DoSetTransfer({"E1"})
    \/ DoApproveTransfer

SpecCycle == Init /\ [][NextCycle]_vars

(* --- every validator-only operation called by every account ---------- *)
(* a call is taken while it leaves at most MaxProposals proposals on chain *)
Bounded(out) == out.s.BridgeTransfersCount <= MaxProposals /\ Commit(out)

NextCallers ==
    \/ \E a \in Callers, m \in EthMessageIds, amount \in DepositAmounts :
         Bounded(multi_signed_mint(Storage, a, EthHash(m), "E1", USER2, TOKEN_ID, amount))
    \/ \E a \in Callers, id \in KnownIds : Bounded(approve_transfer(Storage, a, id))
    \/ \E a \in Callers, id \in KnownIds : Bounded(confirm_transfer(Storage, a, id))
    \/ \E a \in Callers, id \in KnownIds : Bounded(cancel_transfer(Storage, a, id))
    \/ \E a \in Callers : Bounded(update_limits(Storage, a, ProposedLimits))
    \/ \E a \in Callers :
         Bounded(update_validator_list(Storage, a, ListHash("L1"), 3, ExtendedValidators))
    \/ \E a \in Callers : Bounded(pause_bridge(Storage, a))
    \/ \E a \in Callers : Bounded(resume_bridge(Storage, a))

SpecCallers == Init /\ [][NextCallers]_vars

(* ---- a validator list that drops V3 and brings in V4 ---- *)
ReplacedValidators == <<V1, V2, V4>>

DoReplaceValidatorList ==
    \E v \in Validators :
        UpdateValidatorList(v, ListHash("L2"), 2, ReplacedValidators)

NextReplace ==
    \/ DoReplaceValidatorList
    \/ DoMultiSignedMint(EthMessageIds)
    \/ DoSetTransfer({"E1"})
    \/ DoApproveTransfer

SpecReplace == Init /\ [][NextReplace]_vars

(* ---- limits governance: valid values, and values on the type's bounds ---- *)
LimitFields ==
    {"max_tx_value", "day_max_limit", "day_max_limit_for_one_address",
     "max_pending_tx_limit", "min_tx_value"}

LoweredLimits == [ProposedLimits EXCEPT !.max_tx_value = 80]

ValidLimits == {ProposedLimits, LoweredLimits}

(* one field, or two, set to the balance type's minimum or maximum *)
BoundaryLimits ==
    {[GenesisLimits EXCEPT ![f] = x] : f \in LimitFields, x \in {0, BalanceMax}}
    \cup {[GenesisLimits EXCEPT !.min_tx_value = 0, !.max_tx_value = BalanceMax],
          [ProposedLimits EXCEPT !.day_max_limit = BalanceMax, !.min_tx_value = 0]}

DoUpdateLimits ==
    \E v \in Validators, limits \in ValidLimits \cup BoundaryLimits :
        UpdateLimits(v, limits)

NextLimits ==
    \/ DoUpdateLimits
    \/ DoSetTransfer({"E1"})

SpecLimits == Init /\ [][NextLimits]_vars

(* ---- pending volumes against a small max_pending_tx_limit ---- *)
TightLimits == [GenesisLimits EXCEPT !.max_pending_tx_limit = 50]

DoTightenLimits == \E v \in Validators : UpdateLimits(v, TightLimits)

NextPending ==
    \/ DoTightenLimits
    \/ DoSetTransfer({"E1"})
    \/ DoMultiSignedMint(EthMessageIds)
    \/ DoApproveTransfer

SpecPending == Init /\ [][NextPending]_vars

(* ---- daily volumes over several days ---- *)
(* the times of the blocks: six seconds later, or the start of the next day;
   two block times a day are enough *)
BlockTimes ==
    {t \in {Now + 6, ((Now \div DAY) + 1) * DAY} :
        t \div DAY <= MaxDay /\ t % DAY <= 6}

(* the current block is finalized and the next block sets its timestamp *)
DoNextBlock ==
    \E now \in BlockTimes : Commit(Ok(set_timestamp(on_finalize(Storage), now)))

NextDaily ==
    \/ DoSetTransfer(EthAddresses)
    \/ DoNextBlock

SpecDaily == Init /\ [][NextDaily]_vars

(* ---- withdrawals of an account that holds little: the 75% cap ---- *)
(* balances below and above 100, the divisor of the cap's computation *)
CapBalances == {26, 90, 110}

InitCap == \E balance \in CapBalances : GenesisHolding(GenesisValidators, balance)

NextCap ==
    \/ DoSetTransfer(EthAddresses)
    \/ DoApproveTransfer
    \/ DoConfirmTransfer

SpecCap == InitCap /\ [][NextCap]_vars

(* ---- a first deposit and a withdrawal on the same day ---- *)
NextFirstDay ==
    \/ DoMultiSignedMint(EthMessageIds)
    \/ DoSetTransfer({"E1"})
    \/ DoApproveTransfer

SpecFirstDay == InitCap /\ [][NextFirstDay]_vars

(* ---- a deposit in the first block and withdrawals on later days ---- *)
DoFirstBlockMint ==
    \E v \in Validators, m \in EthMessageIds, amount \in DepositAmounts :
        /\ Now = 0
        /\ Bounded(multi_signed_mint(Storage, v, EthHash(m), "E1", USER2, TOKEN_ID, amount))

(* more than three quarters of a balance of 30, and less than it *)
LaterAmounts == {25}
(* the account holds nothing, or 110, before the deposit *)
InitLaterDay == \E balance \in {0, 110} : GenesisHolding(GenesisValidators, balance)

DoLaterSetTransfer ==
    \E from \in Users, amount \in LaterAmounts :
        /\ Now >= DAY
        /\ Bounded(set_transfer(Storage, from, "E1", TOKEN_ID, amount))

NextLaterDay ==
    \/ DoFirstBlockMint
    \/ DoLaterSetTransfer
    \/ DoApproveTransfer
    \/ DoNextBlock

SpecLaterDay == InitLaterDay /\ [][NextLaterDay]_vars

(* ---- votes with message ids that may not have a proposal yet ---- *)
(* the ids of the deposits, relayed already or not, and of all proposals *)
VotedIds == DOMAIN TransferId \cup {EthHash(m) : m \in EthMessageIds}

NextUnknown ==
    \/ DoMultiSignedMint(EthMessageIds)
    \/ DoSetTransfer({"E1"})
    \/ \E v \in Validators, id \in VotedIds : ApproveTransfer(v, id)
    \/ \E v \in Validators, id \in VotedIds : CancelTransfer(v, id)

SpecUnknown == Init /\ [][NextUnknown]_vars

(* --- the committee shrinks to one validator -------------------------- *)
ShrunkValidators == <<V1>>

DoShrinkValidatorList ==
    \E v \in Validators :
        UpdateValidatorList(v, ListHash("L3"), 1, ShrunkValidators)

NextShrink ==
    \/ DoShrinkValidatorList
    \/ DoSetTransfer({"E1"})
    \/ DoApproveTransfer
    \/ DoCancelTransfer

SpecShrink == Init /\ [][NextShrink]_vars

(* --- a list whose stored quorum differs from 51% of its length ------- *)
UnanimousQuorum == 4

DoUnanimousValidatorList ==
    \E v \in Validators :
        UpdateValidatorList(v, ListHash("L4"), UnanimousQuorum, ExtendedValidators)

NextQuorum ==
    \/ DoUnanimousValidatorList
    \/ DoSetTransfer({"E1"})
    \/ DoMultiSignedMint(EthMessageIds)
    \/ DoApproveTransfer

SpecQuorum == Init /\ [][NextQuorum]_vars

(* --- a pending limit of two withdrawals -------------------------------- *)
BacklogLimits == [GenesisLimits EXCEPT !.max_pending_tx_limit = 40]

InitBacklog == GenesisWith(GenesisValidators, InitialBalance, BacklogLimits)

NextBacklog ==
    \/ DoSetTransfer(EthAddresses)
    \/ DoMultiSignedMint(EthMessageIds)
    \/ DoApproveTransfer

SpecBacklog == InitBacklog /\ [][NextBacklog]_vars

(* --- withdrawals of the first block, burned on a later day ------------ *)
DoFirstBlockSetTransfer == Now = 0 /\ DoSetTransfer({"E1"})

NextBurnLater ==
    \/ DoFirstBlockSetTransfer
    \/ DoApproveTransfer
    \/ DoConfirmTransfer
    \/ DoNextBlock

SpecBurnLater == Init /\ [][NextBurnLater]_vars

(* ------------------------------------------------------------------ *)
(* Properties                                                          *)
(* ------------------------------------------------------------------ *)
Transfer(m) == BridgeTransfers[TransferId[m]]
Deposits == {m \in DOMAIN TransferMessages : TransferMessages[m].action = "Deposit"}
Withdraws == {m \in DOMAIN TransferMessages : TransferMessages[m].action = "Withdraw"}

(* C1: the ledger mint of a Deposit message is executed at most once, whatever
   multi_signed_mint, approve_transfer, confirm_transfer and cancel_transfer
   calls follow the mint. *)
C1_MintAtMostOnce ==
    \A m \in DOMAIN minted : minted[m] <= 1

(* a minted deposit whose proposal was reopened by confirm_transfer and voted
   on again *)
C1_Witness ==
    \E m \in Deposits :
        /\ Get(minted, m, 0) = 1
        /\ m \in DOMAIN reopened
        /\ Transfer(m).open
        /\ Transfer(m).votes >= 1

(* C2: execute_burn (unlock, then burn of the message's amount) is executed
   at most once for every Withdraw message, also under further
   confirm_transfer / approve_transfer / cancel_transfer calls after the burn
   and when the account has other withdrawals in escrow. *)
C2_BurnAtMostOnce ==
    \A m \in DOMAIN burned : burned[m] <= 1

(* the validators that have not voted in the current round of m's proposal *)
NotVoted(m) == {v \in Validators : <<TransferId[m], v>> \notin ValidatorVotes}

(* a vote on message m by validator v through approve_transfer, and through
   multi_signed_mint with the fields of the stored message *)
VoteByApprove(v, m) == approve_transfer(Storage, v, m)
VoteByMint(v, m) ==
    LET message == TransferMessages[m]
    IN multi_signed_mint(Storage, v, m, message.eth_address, message.substrate_address,
                         message.token, message.amount)

(* C3 as stated: on a closed proposal, a vote through multi_signed_mint or
   approve_transfer by a validator who has not yet voted on it fails with
   "This transfer is not open" and leaves all state unchanged. *)
C3_ClosedVoteNotOpen ==
    \A m \in DOMAIN TransferMessages : \A v \in NotVoted(m) :
        ~Transfer(m).open =>
            /\ VoteByApprove(v, m) = Fail(Storage, "This transfer is not open")
            /\ VoteByMint(v, m) = Fail(Storage, "This transfer is not open")

(* C3 amended: while the bridge is operational, a vote on a closed proposal
   by a validator who has not yet voted on it fails with "This transfer is
   not open" and leaves all state unchanged; through multi_signed_mint when
   the amount passes check_pending_mint and check_amount, which run first. *)
C3_ClosedVoteNotOpenWhileOperational ==
    \A m \in DOMAIN TransferMessages : \A v \in NotVoted(m) :
        (~Transfer(m).open /\ BridgeIsOperational) =>
            /\ VoteByApprove(v, m) = Fail(Storage, "This transfer is not open")
            /\ (check_pending_mint(Storage, TransferMessages[m].amount).ok
                /\ check_amount(Storage, TransferMessages[m].amount).ok)
               => VoteByMint(v, m) = Fail(Storage, "This transfer is not open")

(* a minted deposit whose proposal is closed, the bridge operational, and a
   validator who has not voted being refused through both entry points *)
C3_Witness ==
    \E m \in Deposits : \E v \in NotVoted(m) :
        /\ ~Transfer(m).open /\ BridgeIsOperational
        /\ Get(minted, m, 0) = 1
        /\ VoteByApprove(v, m) = Fail(Storage, "This transfer is not open")
        /\ VoteByMint(v, m) = Fail(Storage, "This transfer is not open")

(* the validators that have voted in the current round of m's proposal *)
Voted(m) == {v \in Validators : <<TransferId[m], v>> \in ValidatorVotes}

AlreadyVoted == Fail(Storage, "This validator has already voted.")

(* C4: a validator who has already voted in the current round of an open
   proposal is rejected with "This validator has already voted." when voting
   again through approve_transfer, multi_signed_mint, confirm_transfer (on an
   Approved or Confirmed message) or cancel_transfer (on a message that is
   not Confirmed), and the rejected call leaves all state unchanged. *)
C4_AlreadyVotedRejected ==
    \A m \in DOMAIN TransferMessages : \A v \in Voted(m) :
        Transfer(m).open =>
            /\ VoteByApprove(v, m) = AlreadyVoted
            /\ VoteByMint(v, m) = AlreadyVoted
            /\ TransferMessages[m].status \in {"Approved", "Confirmed"}
               => confirm_transfer(Storage, v, m) = AlreadyVoted
            /\ TransferMessages[m].status # "Confirmed"
               => cancel_transfer(Storage, v, m) = AlreadyVoted

(* the outcome of one multi_signed_mint vote by v for the deposit of
   DepositAmounts to USER2 under message id m: below quorum the status is
   Pending and nothing is minted, at quorum exactly the amount is minted to
   the recipient, the status is Confirmed and the proposal is closed *)
DepositVoteOutcome(v, m, amount) ==
    LET out == multi_signed_mint(Storage, v, m, "E1", USER2, TOKEN_ID, amount)
        votes == IF m \in DOMAIN TransferId THEN Transfer(m).votes ELSE 0
        after == out.s
        proposal == after.BridgeTransfers[after.TransferId[m]]
    IN /\ out.ok
       /\ m \in DOMAIN after.TransferMessages /\ m \in DOMAIN after.TransferId
       /\ proposal.votes = votes + 1
       /\ IF votes_are_enough(Storage, votes + 1)
          THEN /\ after.TransferMessages[m].status = "Confirmed"
               /\ ~proposal.open
               /\ after.Balance =
                    Put(Balance, <<TOKEN_ID, USER2>>,
                        balance_of(Storage, TOKEN_ID, USER2) + amount)
               /\ after.TotalSupply =
                    Put(TotalSupply, TOKEN_ID, total_supply(Storage, TOKEN_ID) + amount)
          ELSE /\ after.TransferMessages[m].status = "Pending"
               /\ proposal.open
               /\ after.Balance = Balance /\ after.TotalSupply = TotalSupply

(* a deposit message id that is fresh, or whose proposal has only collected
   multi_signed_mint votes below quorum *)
DepositInProgress(m) ==
    \/ m \notin DOMAIN TransferMessages /\ m \notin DOMAIN TransferId
    \/ /\ m \in Deposits
       /\ TransferMessages[m].status = "Pending"
       /\ Transfer(m).open

(* C5: for a fresh deposit message id, with the bridge operational and the
   amount within limits, for every committee size n >= 1: each
   multi_signed_mint vote below quorum leaves the status Pending without
   minting, and the vote that reaches quorum mints exactly the amount to the
   recipient, sets the status to Confirmed and closes the proposal. *)
C5_DepositMintsAtQuorum ==
    \A id \in EthMessageIds : \A amount \in DepositAmounts :
        LET m == EthHash(id)
        IN (/\ DepositInProgress(m)
            /\ BridgeIsOperational
            /\ check_pending_mint(Storage, amount).ok
            /\ check_amount(Storage, amount).ok)
           => \A v \in Validators :
                (m \in DOMAIN TransferId => v \in NotVoted(m))
                => DepositVoteOutcome(v, m, amount)

(* the sender's balance, the sender's locked amount and the token's total
   supply of message m *)
SenderBalance(m) ==
    Get(Balance, <<TransferMessages[m].token, TransferMessages[m].substrate_address>>, 0)
SenderLocked(m) ==
    Get(Locked, <<TransferMessages[m].token, TransferMessages[m].substrate_address>>, 0)
Supply(m) == Get(TotalSupply, TransferMessages[m].token, 0)

(* the step escrows message m (withdraw ran), the step burns message m
   (execute_burn ran) *)
Escrows(m) == Get(escrowed', m, 0) > Get(escrowed, m, 0)
Burns(m) == Get(burned', m, 0) > Get(burned, m, 0)

(* C6: two-phase withdraw ordering.  The step in which the approval round of
   a Withdraw message reaches quorum locks exactly the amount for the sender,
   sets the status to Approved and closes the proposal; the message is burned
   only after that, by the quorum of a later round that confirm_transfer
   opened; the burning step lowers the sender's balance and the total supply
   by exactly the amount, and the amount is no longer locked. *)
C6_TwoPhaseWithdraw ==
    [][\A m \in Withdraws :
         /\ Escrows(m) =>
              /\ Transfer(m).open /\ ~Transfer(m)'.open
              /\ TransferMessages'[m].status = "Approved"
              /\ SenderLocked(m)' = SenderLocked(m) + TransferMessages[m].amount
              /\ SenderBalance(m)' = SenderBalance(m)
              /\ Supply(m)' = Supply(m)
         /\ Burns(m) =>
              /\ Get(escrowed, m, 0) >= 1
              /\ m \in DOMAIN reopened' /\ reopened'[m] = "Confirmed"
              /\ TransferMessages'[m].status = "Confirmed"
              /\ ~Transfer(m)'.open
              /\ SenderBalance(m)' = SenderBalance(m) - TransferMessages[m].amount
              /\ Supply(m)' = Supply(m) - TransferMessages[m].amount
              /\ SenderLocked(m)' = SenderLocked(m) - TransferMessages[m].amount
      ]_vars

(* a Withdraw message after its burn: escrowed once, reopened by
   confirm_transfer, burned once, the sender's balance lower by the amount *)
C6_Witness ==
    \E m \in Withdraws :
        /\ Get(escrowed, m, 0) = 1 /\ Get(burned, m, 0) = 1
        /\ m \in DOMAIN reopened
        /\ TransferMessages[m].status = "Confirmed" /\ ~Transfer(m).open
        /\ SenderBalance(m) = InitialBalance - TransferMessages[m].amount
        /\ Supply(m) = InitialBalance - TransferMessages[m].amount

(* the least number of votes that votes_are_enough accepts, and the
   sequences of that many distinct validators *)
QuorumSize ==
    CHOOSE k \in 1..(Cardinality(Validators) + 1) :
        /\ k = Cardinality(Validators) + 1 \/ votes_are_enough(Storage, k)
        /\ \A j \in 1..(k - 1) : ~votes_are_enough(Storage, j)

Quorums ==
    {q \in [1..QuorumSize -> Validators] : \A i, j \in 1..QuorumSize : q[i] = q[j] => i = j}

(* the storage after cancel_transfer(m) by each validator of q in turn *)
RECURSIVE CancelledBy(_, _, _)
CancelledBy(s, q, m) ==
    IF q = <<>> THEN s
    ELSE CancelledBy(cancel_transfer(s, Head(q), m).s, Tail(q), m)

(* C7: for a Withdraw message in status Approved with its amount locked for
   the sender, cancel_transfer calls by a quorum of distinct validators set
   the status to Canceled and unlock exactly the amount for the sender,
   leaving the sender's balance and the total supply unchanged. *)
C7_CancelUnlocks ==
    \A m \in Withdraws :
        (/\ TransferMessages[m].status = "Approved"
         /\ SenderLocked(m) >= TransferMessages[m].amount) =>
            \A q \in Quorums :
                LET after == CancelledBy(Storage, q, m)
                    token == TransferMessages[m].token
                    from == TransferMessages[m].substrate_address
                IN /\ after.TransferMessages[m].status = "Canceled"
                   /\ locked(after, token, from) + TransferMessages[m].amount
                        = SenderLocked(m)
                   /\ balance_of(after, token, from) = SenderBalance(m)
                   /\ total_supply(after, token) = Supply(m)

NotApproved(m) == TransferMessages[m].status \notin {"Approved", "Confirmed"}

MustBeApproved == Fail(Storage, "This transfer must be approved first.")

(* C8 as stated: confirm_transfer on a message whose status is neither
   Approved nor Confirmed fails with "This transfer must be approved first."
   and leaves all state unchanged. *)
C8_ConfirmNeedsApproval ==
    \A m \in DOMAIN TransferMessages : \A v \in Validators :
        NotApproved(m) => confirm_transfer(Storage, v, m) = MustBeApproved

(* C8 amended: while the bridge is operational, confirm_transfer by a
   validator on a message whose status is neither Approved nor Confirmed
   fails with "This transfer must be approved first." and leaves all state
   unchanged. *)
C8_ConfirmNeedsApprovalWhileOperational ==
    \A m \in DOMAIN TransferMessages : \A v \in Validators :
        (NotApproved(m) /\ BridgeIsOperational)
            => confirm_transfer(Storage, v, m) = MustBeApproved

(* a withdrawal with one approval vote, status Pending, below quorum, on an
   operational bridge: confirm_transfer is refused for every validator *)
C8_Witness ==
    \E m \in Withdraws :
        /\ TransferMessages[m].status = "Pending"
        /\ Transfer(m).open /\ Transfer(m).votes = 1
        /\ BridgeIsOperational
        /\ \A v \in Validators : confirm_transfer(Storage, v, m) = MustBeApproved

AlreadyExecuted == Fail(Storage, "Failed to cancel. This transfer is already executed.")

(* C9: after a Withdraw has been burned and while its status is Confirmed,
   cancel_transfer by any validator fails with "Failed to cancel. This
   transfer is already executed." and leaves all state unchanged: the
   proposal is not reopened, no vote is recorded, no funds are unlocked. *)
C9_CancelAfterBurnRefused ==
    \A m \in Withdraws : \A v \in Validators :
        (Get(burned, m, 0) >= 1 /\ TransferMessages[m].status = "Confirmed")
            => cancel_transfer(Storage, v, m) = AlreadyExecuted

(* a burned withdrawal, Confirmed and closed, while the account still has
   another withdrawal in escrow that a cancellation could unlock *)
C9_Witness ==
    \E m \in Withdraws :
        /\ Get(burned, m, 0) = 1
        /\ TransferMessages[m].status = "Confirmed" /\ ~Transfer(m).open
        /\ SenderLocked(m) >= TransferMessages[m].amount
        /\ \A v \in Validators : cancel_transfer(Storage, v, m) = AlreadyExecuted

(* message ids of calls: the ones on chain and the ones not yet submitted *)
CallIds == DOMAIN TransferId \cup {EthHash(m) : m \in EthMessageIds}

NotOperational == Fail(Storage, "Bridge is not operational")

(* C10: while the bridge is not operational, set_transfer, multi_signed_mint,
   approve_transfer and confirm_transfer each fail with "Bridge is not
   operational" and change no state, for every caller and message id. *)
C10_PausedRejectsTransfers ==
    ~BridgeIsOperational =>
        /\ \A from \in Callers, to \in EthAddresses, amount \in WithdrawAmounts :
               set_transfer(Storage, from, to, TOKEN_ID, amount) = NotOperational
        /\ \A v \in Callers, m \in CallIds, to \in Callers, amount \in DepositAmounts :
               multi_signed_mint(Storage, v, m, "E1", to, TOKEN_ID, amount) = NotOperational
        /\ \A v \in Callers, m \in CallIds :
               /\ approve_transfer(Storage, v, m) = NotOperational
               /\ confirm_transfer(Storage, v, m) = NotOperational

(* the bridge paused by the committee's quorum while a withdrawal is in its
   approval round, a vote short of quorum: a validator who has not voted is
   refused by approve_transfer *)
C10_Witness ==
    /\ ~BridgeIsOperational
    /\ \E m \in Withdraws : \E v \in NotVoted(m) :
          /\ Transfer(m).open /\ Transfer(m).votes = 1
          /\ approve_transfer(Storage, v, m) = NotOperational
          /\ confirm_transfer(Storage, v, m) = NotOperational
    /\ \E m \in EthMessageIds :
          /\ EthHash(m) \notin DOMAIN TransferMessages
          /\ multi_signed_mint(Storage, V1, EthHash(m), "E1", USER2, TOKEN_ID, 30)
               = NotOperational

(* the storage after pause_bridge, resume_bridge by each validator of q in
   turn *)
RECURSIVE PausedBy(_, _)
PausedBy(s, q) ==
    IF q = <<>> THEN s ELSE PausedBy(pause_bridge(s, Head(q)).s, Tail(q))

RECURSIVE ResumedBy(_, _)
ResumedBy(s, q) ==
    IF q = <<>> THEN s ELSE ResumedBy(resume_bridge(s, Head(q)).s, Tail(q))

(* C11: from every reachable state in which the bridge is operational,
   pause_bridge calls by a quorum of distinct validators make it
   non-operational, and from every reachable state in which it is paused,
   resume_bridge calls by a quorum of distinct validators make it operational
   again, in every pause / resume cycle. *)
C11_PauseResumeCycles ==
    \A q \in Quorums :
        /\ BridgeIsOperational => ~PausedBy(Storage, q).BridgeIsOperational
        /\ ~BridgeIsOperational => ResumedBy(Storage, q).BridgeIsOperational

(* the votes of the pause proposal, 0 while it does not exist *)
PauseVotes ==
    IF PauseHash \in DOMAIN TransferId THEN Transfer(PauseHash).votes ELSE 0

(* C12: pause_bridge by a validator while the bridge is already
   non-operational fails with "Bridge is not operational already" and changes
   no state; a pause vote below quorum leaves the bridge operational and the
   pause message Pending, and the first pause vote of a committee is
   accepted. *)
C12_PauseVotes ==
    \A v \in Validators :
        LET out == pause_bridge(Storage, v)
        IN /\ ~BridgeIsOperational
              => out = Fail(Storage, "Bridge is not operational already")
           /\ (BridgeIsOperational /\ PauseHash \notin DOMAIN TransferId) => out.ok
           /\ (BridgeIsOperational /\ out.ok /\ ~votes_are_enough(Storage, PauseVotes + 1))
              => /\ out.s.BridgeIsOperational
                 /\ out.s.BridgeMessages[PauseHash].status = "Pending"
                 /\ out.s.BridgeTransfers[out.s.TransferId[PauseHash]].votes
                      = PauseVotes + 1

(* the bridge paused by a quorum, with a pause vote below quorum before it:
   a validator who has not voted on the pause is refused *)
C12_Witness ==
    /\ ~BridgeIsOperational
    /\ PauseHash \in DOMAIN BridgeMessages
    /\ BridgeMessages[PauseHash].status = "Confirmed"
    /\ \E v \in NotVoted(PauseHash) :
          pause_bridge(Storage, v) = Fail(Storage, "Bridge is not operational already")

OnlyValidators == Fail(Storage, "Only validators can call this function")

(* the refusal of a non-validator by an operation that tests the operational
   flag first *)
Refused(out) ==
    IF BridgeIsOperational THEN out = OnlyValidators ELSE out = NotOperational

(* message ids of every kind that a call can name *)
AnyIds == DOMAIN TransferId \cup {EthHash(m) : m \in EthMessageIds} \cup {ListHash("L1")}

(* C13: every validator-only operation called by an account that is not a
   validator fails with "Only validators can call this function" (or, for
   the operations that test it first, with the bridge-paused error) and
   changes no state; every recorded vote is the vote of a validator. *)
C13_OnlyValidatorsVote ==
    /\ \A a \in Callers \ Validators :
         /\ \A m \in AnyIds, amount \in DepositAmounts :
              Refused(multi_signed_mint(Storage, a, m, "E1", USER2, TOKEN_ID, amount))
         /\ \A m \in AnyIds :
              /\ Refused(approve_transfer(Storage, a, m))
              /\ Refused(confirm_transfer(Storage, a, m))
              /\ cancel_transfer(Storage, a, m) = OnlyValidators
              /\ update_validator_list(Storage, a, m, 3, ExtendedValidators)
                   = OnlyValidators
         /\ update_limits(Storage, a, ProposedLimits) = OnlyValidators
         /\ pause_bridge(Storage, a) = OnlyValidators
         /\ resume_bridge(Storage, a) = OnlyValidators
    /\ \A vote \in ValidatorVotes : vote[2] \in Validators

(* a deposit with one vote and the committee's pause with one vote, both
   open, after which V4 and the users are refused *)
C13_Witness ==
    /\ \E m \in Deposits : Transfer(m).open /\ Transfer(m).votes = 1
    /\ PauseHash \in DOMAIN TransferId /\ Transfer(PauseHash).open
    /\ {V4, USER1, USER2} \cap Validators = {}
    /\ \A a \in {V4, USER1, USER2} :
         /\ \A m \in Deposits : approve_transfer(Storage, a, m) = OnlyValidators
         /\ pause_bridge(Storage, a) = OnlyValidators

ListConfirmed(l) ==
    /\ ListHash(l) \in DOMAIN ValidatorHistory
    /\ ValidatorHistory[ListHash(l)].status = "Confirmed"

(* C14: in the step where an update_validator_list proposal reaches quorum,
   the accounts accepted as validators become exactly the accounts of the
   proposed list (every other account is rejected by check_validator),
   ValidatorsCount becomes the list's length, Quorum the proposed quorum and
   the proposal's message Confirmed. *)
C14_ListInstalled ==
    [][(ListConfirmed("L2")' /\ ~ListConfirmed("L2"))
         => LET info == ValidatorHistory'[ListHash("L2")]
            IN /\ \A a \in Callers :
                    check_validator(Storage, a)'.ok <=> a \in Range(info.accounts)
               /\ ValidatorsCount' = Len(info.accounts)
               /\ Quorum' = info.quorum]_vars

OnBound(limits) == \E f \in LimitFields : limits[f] \in {0, BalanceMax}

(* C15: update_limits with a field equal to the balance type's minimum or
   maximum fails with "Overflow setting limit" (some field is the maximum)
   or "Underflow setting limit" and leaves the storage as it was: no
   proposal, no message, no vote; every field of CurrentLimits is strictly
   between the minimum and the maximum. *)
C15_LimitsWithinBounds ==
    /\ \A v \in Validators, limits \in BoundaryLimits :
         update_limits(Storage, v, limits) =
            IF \E f \in LimitFields : limits[f] = BalanceMax
            THEN Fail(Storage, "Overflow setting limit")
            ELSE Fail(Storage, "Underflow setting limit")
    /\ \A f \in LimitFields : 0 < CurrentLimits[f] /\ CurrentLimits[f] < BalanceMax

(* limits other than the genesis values are installed after a quorum voted,
   and a value on the bounds is still refused *)
C15_Witness ==
    /\ CurrentLimits = LoweredLimits
    /\ LimitsHash(ProposedLimits) \in DOMAIN LimitMessages
    /\ \A limits \in BoundaryLimits : OnBound(limits)
    /\ \A limits \in BoundaryLimits :
         /\ ~update_limits(Storage, V3, limits).ok
         /\ LimitsHash(limits) \notin DOMAIN LimitMessages

(* the storage after update_limits with the same values by each validator of
   q in turn *)
RECURSIVE LimitsBy(_, _, _)
LimitsBy(s, q, limits) ==
    IF q = <<>> THEN s
    ELSE LimitsBy(update_limits(s, Head(q), limits).s, Tail(q), limits)

LimitsVotes(limits) ==
    IF LimitsHash(limits) \in DOMAIN TransferId
    THEN Transfer(LimitsHash(limits)).votes ELSE 0

(* C16: from every reachable state, update_limits calls with the same valid
   values by a quorum of distinct validators make CurrentLimits equal to the
   proposed values, also for values that were installed before and replaced
   since; a call that leaves the votes below the quorum leaves CurrentLimits
   unchanged. *)
C16_QuorumInstallsLimits ==
    \A limits \in ValidLimits :
        /\ \A q \in Quorums : LimitsBy(Storage, q, limits).CurrentLimits = limits
        /\ \A v \in Validators :
             ~votes_are_enough(Storage, LimitsVotes(limits) + 1)
                => update_limits(Storage, v, limits).s.CurrentLimits = CurrentLimits

(* amounts on, next to and between the bounds of the current limits *)
AmountsAround ==
    LET min == CurrentLimits.min_tx_value
        max == CurrentLimits.max_tx_value
    IN {0, min, min + 1, 20, max - 1, max, max + 1}

AmountErrors ==
    {"Invalid amount for transaction. Reached minimum limit.",
     "Invalid amount for transaction. Reached maximum limit."}

OutOfBounds(amount) ==
    amount <= CurrentLimits.min_tx_value \/ amount >= CurrentLimits.max_tx_value

(* C17: set_transfer and multi_signed_mint fail for every amount with
   amount <= min_tx_value or amount >= max_tx_value and leave the storage as
   it was (no proposal, no message, no counter changed); for an amount
   strictly between the two they do not fail with an error of check_amount. *)
C17_AmountStrictlyBetween ==
    \A amount \in AmountsAround :
        /\ \A a \in Callers, to \in EthAddresses :
             LET out == set_transfer(Storage, a, to, TOKEN_ID, amount)
             IN IF OutOfBounds(amount)
                THEN ~out.ok /\ out.s = Storage
                     /\ (BridgeIsOperational => out.err \in AmountErrors)
                ELSE out.ok \/ out.err \notin AmountErrors
        /\ \A v \in Validators, m \in EthMessageIds :
             LET out == multi_signed_mint(Storage, v, EthHash(m), "E1", USER2,
                                          TOKEN_ID, amount)
             IN IF OutOfBounds(amount)
                THEN ~out.ok /\ out.s = Storage
                ELSE out.ok \/ out.err \notin AmountErrors

(* the limits were lowered, a withdrawal is recorded, and at these limits
   the two bounds are refused while the amounts next to them are not refused
   by check_amount *)
C17_Witness ==
    /\ CurrentLimits = LoweredLimits
    /\ Withdraws # {}
    /\ ~set_transfer(Storage, USER2, "E2", TOKEN_ID, 80).ok
    /\ ~set_transfer(Storage, USER2, "E2", TOKEN_ID, 1).ok
    /\ multi_signed_mint(Storage, V1, EthHash("M1"), "E1", USER2, TOKEN_ID, 79).ok
    /\ multi_signed_mint(Storage, V1, EthHash("M1"), "E1", USER2, TOKEN_ID, 2).ok

TooManyBurn == "Too many pending burn transactions."
TooManyMint == "Too many pending mint transactions."

(* amounts that bring the pending volumes next to, onto and over
   max_pending_tx_limit, and the largest balance *)
PendingAmounts ==
    LET limit == CurrentLimits.max_pending_tx_limit
    IN {x \in {20, 30, limit - CurrentPendingBurn - 1, limit - CurrentPendingBurn,
               limit - CurrentPendingMint - 1, limit - CurrentPendingMint,
               limit, BalanceMax} : x >= 0}

(* C18: set_transfer fails with "Too many pending burn transactions."
   exactly when CurrentPendingBurn + amount >= max_pending_tx_limit, and
   multi_signed_mint by a validator fails with "Too many pending mint
   transactions." exactly when CurrentPendingMint + amount >=
   max_pending_tx_limit; the refused call leaves the storage as it was. *)
C18_PendingLimitExact ==
    \A amount \in PendingAmounts :
        /\ \A a \in Users, to \in EthAddresses :
             LET out == set_transfer(Storage, a, to, TOKEN_ID, amount)
             IN (out = Fail(Storage, TooManyBurn))
                  <=> (CurrentPendingBurn + amount >= CurrentLimits.max_pending_tx_limit)
        /\ \A v \in Validators, m \in EthMessageIds :
             LET out == multi_signed_mint(Storage, v, EthHash(m), "E1", USER2,
                                          TOKEN_ID, amount)
             IN (out = Fail(Storage, TooManyMint))
                  <=> (CurrentPendingMint + amount >= CurrentLimits.max_pending_tx_limit)

(* C18, with the checks that come first: while the bridge is operational,
   set_transfer with an amount that check_amount lets pass, and
   multi_signed_mint by a validator with any amount, fail with the overflow
   error when the pending volume plus the amount exceeds the largest
   balance, fail with the "Too many pending ..." error when the sum is no
   larger than that and >= max_pending_tx_limit, and in neither way
   otherwise; the refused call leaves the storage as it was. *)
C18_PendingLimitAfterEarlierChecks ==
    BridgeIsOperational =>
    \A amount \in PendingAmounts :
        /\ \A a \in Users, to \in EthAddresses :
             LET out == set_transfer(Storage, a, to, TOKEN_ID, amount)
                 sum == CurrentPendingBurn + amount
             IN check_amount(Storage, amount).ok =>
                  /\ sum > BalanceMax
                       <=> out = Fail(Storage, "Overflow adding to new pending burn volume")
                  /\ (sum <= BalanceMax /\ sum >= CurrentLimits.max_pending_tx_limit)
                       <=> out = Fail(Storage, TooManyBurn)
        /\ \A v \in Validators, m \in EthMessageIds :
             LET out == multi_signed_mint(Storage, v, EthHash(m), "E1", USER2,
                                          TOKEN_ID, amount)
                 sum == CurrentPendingMint + amount
             IN /\ sum > BalanceMax
                     <=> out = Fail(Storage, "Overflow adding to new pending mint volume")
                /\ (sum <= BalanceMax /\ sum >= CurrentLimits.max_pending_tx_limit)
                     <=> out = Fail(Storage, TooManyMint)

(* under the tight limits a withdrawal and a deposit are pending, and a
   further withdrawal and a further vote on the deposit are refused for the
   pending volume *)
C18_Witness ==
    /\ BridgeIsOperational
    /\ CurrentLimits = TightLimits
    /\ CurrentPendingBurn = 20 /\ CurrentPendingMint = 30
    /\ set_transfer(Storage, USER2, "E2", TOKEN_ID, 30) = Fail(Storage, TooManyBurn)
    /\ set_transfer(Storage, USER2, "E2", TOKEN_ID, 29).ok
    /\ \E v \in Validators :
         multi_signed_mint(Storage, v, EthHash("M1"), "E1", USER2, TOKEN_ID, 30)
            = Fail(Storage, TooManyMint)

Today == get_day_pair(Storage)[2]

(* the accounts on the blocklist of a token and a day, as often as listed *)
BlockedOn(s, token_id, day) == Get(s.DailyBlocked, <<token_id, day>>, <<>>)

TimesListed(list, account) == Cardinality({i \in 1..Len(list) : list[i] = account})

DailyDeclined == "Transfer declined, user blocked due to daily volume limit."

(* amounts below, next to and above the per-account cap and max_tx_value *)
DailyAmounts ==
    LET cap == CurrentLimits.day_max_limit_for_one_address
    IN {5, 9, 10, 20, cap - 1, cap, CurrentLimits.max_tx_value}

RecordedVolume(account) == Get(DailyLimits, <<TOKEN_ID, account>>, 0)

(* C19: a set_transfer by an account whose recorded volume plus the amount
   reaches or exceeds day_max_limit_for_one_address fails and leaves the
   account once on today's blocklist of the token; every set_transfer by an
   account on today's blocklist fails, also when the volume plus the amount
   is below the cap. *)
C19_DailyVolumeBlocks ==
    \A a \in Users, to \in EthAddresses, amount \in DailyAmounts :
        LET out == set_transfer(Storage, a, to, TOKEN_ID, amount)
        IN /\ RecordedVolume(a) + amount >= CurrentLimits.day_max_limit_for_one_address
                => /\ ~out.ok
                   /\ TimesListed(BlockedOn(out.s, TOKEN_ID, Today), a) = 1
           /\ a \in Range(BlockedOn(Storage, TOKEN_ID, Today)) => ~out.ok

(* C19, with the checks that come first: while the bridge is operational, a
   set_transfer with an amount that check_amount and check_pending_burn let
   pass, by an account whose recorded volume plus the amount (added in the
   balance type) reaches or exceeds day_max_limit_for_one_address, fails
   with the daily-volume error
   and changes nothing but today's blocklist of the token, which then lists
   the account once; every set_transfer by an account on today's blocklist
   fails, also when the volume plus the amount is below the cap. *)
C19_DailyVolumeBlocksAfterEarlierChecks ==
    \A a \in Users, to \in EthAddresses, amount \in DailyAmounts :
        LET out == set_transfer(Storage, a, to, TOKEN_ID, amount)
            blocked == BlockedOn(Storage, TOKEN_ID, Today)
        IN /\ ( /\ BridgeIsOperational
                /\ check_amount(Storage, amount).ok
                /\ check_pending_burn(Storage, amount).ok
                /\ BalanceAdd(RecordedVolume(a), amount)
                     >= CurrentLimits.day_max_limit_for_one_address )
                => out = Fail([Storage EXCEPT !.DailyBlocked =
                                 Put(@, <<TOKEN_ID, Today>>,
                                     IF a \in Range(blocked) THEN blocked
                                     ELSE Append(blocked, a))],
                              DailyDeclined)
                   /\ TimesListed(BlockedOn(out.s, TOKEN_ID, Today), a) = 1
           /\ a \in Range(blocked) => ~out.ok /\ out.s.DailyLimits = DailyLimits

(* on the second day the account is on the blocklist with a volume of 40:
   a transfer of 5 would pass the volume check alone and is refused, and a
   transfer of 20 is refused without the account being listed twice *)
C19_Witness ==
    /\ Today = 1
    /\ BlockedOn(Storage, TOKEN_ID, Today) = <<USER2>>
    /\ RecordedVolume(USER2) = 40
    /\ set_transfer(Storage, USER2, "E1", TOKEN_ID, 5) = Fail(Storage, DailyDeclined)
    /\ set_transfer(Storage, USER2, "E1", TOKEN_ID, 20) = Fail(Storage, DailyDeclined)

(* the account has submitted no withdrawal with a timestamp of today *)
NoWithdrawalToday(account) ==
    \A m \in Withdraws :
        TransferMessages[m].substrate_address = account => m[5] \div DAY # Today

(* C20: an account put on the blocklist during an earlier day, which has
   submitted nothing today, is accepted by set_transfer today for every
   amount that alone is below the per-account cap and within the other
   limits, in every block of the day, the first one included (the
   blocklist of the earlier day is still stored during that block). *)
C20_UnblockedNextDay ==
    \A a \in Users, d \in 0..MaxDay :
        ( /\ d < Today
          /\ a \in Range(BlockedOn(Storage, TOKEN_ID, d))
          /\ NoWithdrawalToday(a) )
        => \A to \in EthAddresses, amount \in DailyAmounts :
             ( /\ BridgeIsOperational
               /\ amount < CurrentLimits.day_max_limit_for_one_address
               /\ check_amount(Storage, amount).ok
               /\ check_pending_burn(Storage, amount).ok )
             => set_transfer(Storage, a, to, TOKEN_ID, amount).ok

CapExceeded == "Cannot withdraw more that 75% of first day deposit."

(* the ledger: balances, escrow and supply *)
Ledger(s) == <<s.Balance, s.Locked, s.TotalSupply>>

(* C21: when the approval vote that reaches quorum on a withdrawal violates
   the 75% cap, the call fails with the cap's error and changes nothing but
   the message's status, which becomes Canceled (no funds locked, vote not
   recorded, votes and open flag unchanged); no later vote on that proposal,
   by approve_transfer, confirm_transfer or cancel_transfer, changes the
   ledger. *)
C21_CapCancelsOnly ==
    \A m \in Withdraws, v \in Validators :
        LET out == approve_transfer(Storage, v, m)
        IN (~out.ok /\ out.err = CapExceeded)
             => /\ out.s = [Storage EXCEPT !.TransferMessages[m].status = "Canceled"]
                /\ \A v2 \in Validators :
                     /\ Ledger(approve_transfer(out.s, v2, m).s) = Ledger(Storage)
                     /\ Ledger(confirm_transfer(out.s, v2, m).s) = Ledger(Storage)
                     /\ Ledger(cancel_transfer(out.s, v2, m).s) = Ledger(Storage)

(* the approval of withdrawal m by v is a vote that reaches quorum *)
QuorumApproval(m, v) ==
    /\ BridgeIsOperational
    /\ TransferMessages[m].status \in {"Withdraw", "Pending"}
    /\ Transfer(m).open
    /\ <<TransferId[m], v>> \notin ValidatorVotes
    /\ votes_are_enough(Storage, Transfer(m).votes + 1)

(* the sender of m has a recorded first deposit and can escrow m's amount *)
DepositedAndLockable(m) ==
    /\ TransferMessages[m].substrate_address \in DOMAIN DailyHolds
    /\ SenderBalance(m) - SenderLocked(m) >= TransferMessages[m].amount
    /\ CurrentPendingBurn >= TransferMessages[m].amount

(* C22: on the day of the account's first deposit, the approval that reaches
   quorum on a withdrawal of w from an account holding b fails, cancelling
   the message, exactly when 4 * w > 3 * b, and otherwise succeeds and locks
   w, also for b below 100. *)
C22_CapIsThreeQuarters ==
    \A m \in Withdraws, v \in Validators :
        (QuorumApproval(m, v) /\ DepositedAndLockable(m))
        => LET out == approve_transfer(Storage, v, m)
               w == TransferMessages[m].amount
               b == SenderBalance(m)
           IN IF 4 * w > 3 * b
              THEN /\ out.err = CapExceeded
                   /\ out.s.TransferMessages[m].status = "Canceled"
              ELSE /\ out.ok
                   /\ Ledger(out.s) = Ledger(token_lock(Storage, TOKEN_ID,
                                         TransferMessages[m].substrate_address, w).s)

(* C23: the 75% cap applies only during the first DAY_IN_BLOCKS blocks after
   the account's first deposit: once a day has passed since the deposit of
   the first block, the approval that reaches quorum on a withdrawal the
   account can cover succeeds and locks the amount, also when the amount
   exceeds 75% of the balance. *)
C23_CapEndsAfterOneDay ==
    \A m \in Withdraws, v \in Validators :
        (QuorumApproval(m, v) /\ DepositedAndLockable(m) /\ Now >= DAY)
        => LET out == approve_transfer(Storage, v, m)
           IN /\ out.ok
              /\ Ledger(out.s) = Ledger(token_lock(Storage, TOKEN_ID,
                                    TransferMessages[m].substrate_address,
                                    TransferMessages[m].amount).s)

(* the two indexes of the proposals are inverses of each other and the
   proposal ids are 0 .. BridgeTransfersCount - 1 *)
IndexesAgree(s) ==
    /\ DOMAIN s.BridgeTransfers = 0..(s.BridgeTransfersCount - 1)
    /\ DOMAIN s.MessageId = DOMAIN s.BridgeTransfers
    /\ \A i \in DOMAIN s.MessageId :
         /\ s.MessageId[i] \in DOMAIN s.TransferId
         /\ s.TransferId[s.MessageId[i]] = i
         /\ s.BridgeTransfers[i].transfer_id = i
         /\ s.BridgeTransfers[i].message_id = s.MessageId[i]
    /\ \A h \in DOMAIN s.TransferId :
         /\ s.TransferId[h] \in DOMAIN s.MessageId
         /\ s.MessageId[s.TransferId[h]] = h

(* the outcome of an initiating operation submitted with message id h: when
   it succeeds h has a proposal, and when h had one already no proposal is
   added *)
SubmittedOnce(out, h) ==
    /\ out.ok => h \in DOMAIN out.s.TransferId
    /\ h \in DOMAIN TransferId
         => /\ out.s.BridgeTransfersCount = BridgeTransfersCount
            /\ out.s.TransferId = TransferId
            /\ out.s.MessageId = MessageId
            /\ DOMAIN out.s.BridgeTransfers = DOMAIN BridgeTransfers

(* C24: in every reachable state there is exactly one proposal per submitted
   message id: TransferId and MessageId are mutual inverses, the proposal
   ids are 0 .. BridgeTransfersCount - 1, and an initiating operation
   submitted by any caller with a message id that has a proposal creates no
   second proposal and leaves BridgeTransfersCount unchanged. *)
C24_OneProposalPerMessage ==
    /\ IndexesAgree(Storage)
    /\ \A v \in Validators :
         /\ \A h \in VotedIds, amount \in DepositAmounts :
              SubmittedOnce(multi_signed_mint(Storage, v, h, "E1", USER2, TOKEN_ID, amount), h)
         /\ SubmittedOnce(pause_bridge(Storage, v), PauseHash)
         /\ SubmittedOnce(update_limits(Storage, v, ProposedLimits), LimitsHash(ProposedLimits))
         /\ \A h \in VotedIds :
              SubmittedOnce(update_validator_list(Storage, v, h, 3, ExtendedValidators), h)
    /\ \A a \in Users, amount \in WithdrawAmounts :
         SubmittedOnce(set_transfer(Storage, a, "E1", TOKEN_ID, amount),
                       TransferHash(a, "E1", amount, Now))

(* a failed call changed nothing, or it failed on the 75% cap and changed
   nothing but the status of one message, to Canceled *)
FailedCleanly(out) ==
    \/ out.ok
    \/ out.s = Storage
    \/ /\ out.err = CapExceeded
       /\ \E m \in DOMAIN TransferMessages :
              /\ out.s.TransferMessages[m].status = "Canceled"
              /\ out.s = [Storage EXCEPT !.TransferMessages[m].status = "Canceled"]

(* C25: every public operation that returns an error leaves the whole
   bridge and ledger state as it was before the call, except the failure on
   the 75% cap, in which only the message's status changes, to Canceled. *)
C25_ErrorsChangeNothing ==
    /\ \A from \in Callers, to \in EthAddresses, amount \in WithdrawAmounts :
           FailedCleanly(set_transfer(Storage, from, to, TOKEN_ID, amount))
    /\ \A v \in Callers, m \in EthMessageIds, amount \in DepositAmounts :
           FailedCleanly(multi_signed_mint(Storage, v, EthHash(m), "E1", USER2,
                                           TOKEN_ID, amount))
    /\ \A v \in Callers, id \in DOMAIN TransferId :
           /\ FailedCleanly(approve_transfer(Storage, v, id))
           /\ FailedCleanly(confirm_transfer(Storage, v, id))
           /\ FailedCleanly(cancel_transfer(Storage, v, id))
    /\ \A v \in Callers :
           /\ FailedCleanly(pause_bridge(Storage, v))
           /\ FailedCleanly(resume_bridge(Storage, v))
           /\ FailedCleanly(update_limits(Storage, v, ProposedLimits))
           /\ FailedCleanly(update_validator_list(Storage, v, ListHash("L1"), 3,
                                                  ExtendedValidators))

VotesOf(s, p) == s.BridgeTransfers[p].votes

(* the votes of every proposal after the call `out` that voted on proposal
   p: one more on p when the call succeeded (1 when it reopened p first),
   the same when it failed, and the same on every other proposal *)
CountedOnce(out, p, reopens) ==
    \A q \in DOMAIN BridgeTransfers :
        VotesOf(out.s, q) =
            IF q # p \/ ~out.ok THEN VotesOf(Storage, q)
            ELSE IF reopens THEN 1
            ELSE VotesOf(Storage, q) + 1

(* C26: for every proposal, each successful vote increases votes by exactly
   1, a failed vote leaves votes unchanged, and votes decreases only when
   confirm_transfer or cancel_transfer reopens a closed proposal, which sets
   it to 0 before the vote is counted. *)
C26_VotesCountVotes ==
    \A m \in DOMAIN TransferId : \A v \in Validators :
        /\ CountedOnce(approve_transfer(Storage, v, m), TransferId[m], FALSE)
        /\ CountedOnce(confirm_transfer(Storage, v, m), TransferId[m], ~Transfer(m).open)
        /\ CountedOnce(cancel_transfer(Storage, v, m), TransferId[m], ~Transfer(m).open)

(* C27: in every reachable state every proposal's votes is at most the
   current ValidatorsCount, also after an update_validator_list proposal has
   changed the committee while other proposals hold votes. *)
C27_VotesWithinCommittee ==
    \A p \in DOMAIN BridgeTransfers : BridgeTransfers[p].votes <= ValidatorsCount

(* the validators recorded as having voted on proposal p in storage s *)
VotersOf(s, p) == {w \in s.Validators : <<p, w>> \in s.ValidatorVotes}

(* the call `out` by validator v reopened proposal p and counted v's vote as
   the first of the new round: no other validator is marked as voted *)
ReopenedFor(out, p, v) ==
    /\ out.ok
    /\ out.s.BridgeTransfers[p].votes = 1
    /\ out.s.BridgeTransfers[p].open
    /\ VotersOf(out.s, p) = {v}

(* the call `out` reset nothing on proposal p *)
NothingReset(out, p) ==
    /\ VotersOf(Storage, p) \subseteq VotersOf(out.s, p)
    /\ out.s.BridgeTransfers[p].votes >= BridgeTransfers[p].votes

(* C28: when confirm_transfer or cancel_transfer reopens a closed proposal,
   the proposal gets votes = 0 and open = true and every validator of that
   time, also one added by update_validator_list after genesis, is marked as
   not having voted, so the caller's vote is the only one of the second
   round; on a proposal that is still open the two operations reset
   nothing. *)
C28_ReopenResetsEveryValidator ==
    \A m \in DOMAIN TransferMessages \cap DOMAIN TransferId : \A v \in Validators :
        LET p == TransferId[m]
            status == TransferMessages[m].status
        IN /\ ~Transfer(m).open /\ status # "Confirmed"
              => ReopenedFor(cancel_transfer(Storage, v, m), p, v)
           /\ ~Transfer(m).open /\ status = "Approved" /\ BridgeIsOperational
              => ReopenedFor(confirm_transfer(Storage, v, m), p, v)
           /\ Transfer(m).open
              => /\ NothingReset(cancel_transfer(Storage, v, m), p)
                 /\ NothingReset(confirm_transfer(Storage, v, m), p)

(* the sum of the amounts of the messages with the ids `ids` *)
RECURSIVE SumOfAmounts(_)
SumOfAmounts(ids) ==
    IF ids = {} THEN 0
    ELSE LET m == CHOOSE x \in ids : TRUE
         IN TransferMessages[m].amount + SumOfAmounts(ids \ {m})

PendingMessages(action) ==
    {m \in DOMAIN TransferMessages :
        /\ TransferMessages[m].status = "Pending"
        /\ TransferMessages[m].action = action}

(* C29: in every reachable state, for every committee size,
   CurrentPendingBurn is the sum of the amounts of the Withdraw messages
   whose status is Pending, CurrentPendingMint is the sum of the amounts of
   the Deposit messages whose status is Pending, and neither is negative. *)
C29_PendingAggregatesAreSums ==
    /\ CurrentPendingBurn = SumOfAmounts(PendingMessages("Withdraw"))
    /\ CurrentPendingMint = SumOfAmounts(PendingMessages("Deposit"))
    /\ CurrentPendingBurn >= 0
    /\ CurrentPendingMint >= 0

(* the vote `out` on proposal p was counted, and it closed the proposal
   exactly when the votes including it are 51% of the validators counted
   when the call was made *)
DecidedByCount(out, p) ==
    LET votes == Get(BridgeTransfers, p, DefaultBridgeTransfer).votes + 1
    IN out.ok =>
         /\ out.s.BridgeTransfers[p].votes = votes
         /\ out.s.BridgeTransfers[p].open = ~(votes * 100 >= ValidatorsCount * 51)

(* C30: a vote reaches quorum exactly when votes * 100 >= ValidatorsCount *
   51, with votes counted after the vote and ValidatorsCount read at the
   time of the vote; the stored Quorum value does not enter the decision,
   and after a validator-list update has changed ValidatorsCount the
   proposals that were already open are decided against the new count. *)
C30_QuorumByCurrentCount ==
    \A v \in Validators :
        /\ \A m \in DOMAIN TransferId :
               DecidedByCount(approve_transfer(Storage, v, m), TransferId[m])
        /\ \A m \in DOMAIN TransferMessages :
               TransferMessages[m].action = "Deposit"
               => DecidedByCount(VoteByMint(v, m), TransferId[m])
        /\ LET out == update_validator_list(Storage, v, ListHash("L4"), UnanimousQuorum,
                                            ExtendedValidators)
           IN DecidedByCount(out, out.s.TransferId[ListHash("L4")])

(* a withdrawal submitted before the list proposal was approved by three of
   the four validators of the new list, whose stored quorum is four: it was
   still open after two votes and closed with the third *)
C30_Witness ==
    /\ ValidatorsCount = 4
    /\ Quorum = UnanimousQuorum
    /\ \E m \in Withdraws :
           /\ ListHash("L4") \in DOMAIN TransferId
           /\ TransferId[m] < TransferId[ListHash("L4")]
           /\ ~Transfer(m).open
           /\ Transfer(m).votes = 3
           /\ TransferMessages[m].status = "Approved"

Settled(s, m) ==
    /\ m \in DOMAIN s.TransferMessages
    /\ s.TransferMessages[m].status \in {"Confirmed", "Canceled"}

(* C31: Confirmed and Canceled are terminal for Transfer messages: once a
   message's stored status is Confirmed or Canceled, no vote, no
   confirm_transfer, no cancel_transfer and no resubmission through
   set_transfer or multi_signed_mint gives it another status. *)
C31_SettledStatusIsTerminal ==
    [][\A m \in DOMAIN TransferMessages :
          Settled(Storage, m) => TransferMessages'[m].status = TransferMessages[m].status]_vars

(* the storage s differs from the current one at most in the daily volumes
   and the blocklists *)
OnlyDailyBooks(s) ==
    s = [Storage EXCEPT !.DailyLimits = s.DailyLimits, !.DailyBlocked = s.DailyBlocked]

(* C32: on_finalize on day d >= 1 removes, for each token, the blocklist
   entry of day d - 1 and resets the daily volume of every account in it; on
   day 0 it clears nothing. It never modifies proposals, messages, recorded
   votes, pending aggregates, limits, the validator set or the operational
   flag, so an open proposal stays open with its votes. *)
C32_FinalizeClearsYesterday ==
    LET d == Now \div DAY
        s == on_finalize(Storage)
    IN /\ OnlyDailyBooks(s)
       /\ d = 0 => s = Storage
       /\ d >= 1 =>
            \A t \in Tokens :
                LET listed == Range(Get(DailyBlocked, <<t, d - 1>>, <<>>))
                IN /\ <<t, d - 1>> \notin DOMAIN s.DailyBlocked
                   /\ \A k \in DOMAIN DailyBlocked \ {<<t, d - 1>>} :
                          k \in DOMAIN s.DailyBlocked /\ s.DailyBlocked[k] = DailyBlocked[k]
                   /\ \A a \in Callers :
                          Get(s.DailyLimits, <<t, a>>, 0) =
                              IF a \in listed THEN 0 ELSE Get(DailyLimits, <<t, a>>, 0)

(* a block of day 1 or later is about to be finalized while yesterday's
   blocklist holds an account with recorded volume *)
C32_Witness ==
    /\ Now \div DAY >= 1
    /\ \E t \in Tokens :
           LET listed == Range(Get(DailyBlocked, <<t, (Now \div DAY) - 1>>, <<>>))
           IN \E a \in listed : Get(DailyLimits, <<t, a>>, 0) > 0
    /\ on_finalize(Storage) # Storage

(* C33: the volume that set_transfer checks against
   day_max_limit_for_one_address is the account's volume of the current day
   only: an account that has submitted nothing today is not rejected by the
   daily-volume check and not put on a blocklist for an amount that alone is
   below the cap, whatever it submitted on earlier days and whether or not
   it was blocked before. *)
C33_VolumeOfTodayOnly ==
    \A a \in Users, to \in EthAddresses, amount \in WithdrawAmounts :
        LET out == set_transfer(Storage, a, to, TOKEN_ID, amount)
        IN ( /\ NoWithdrawalToday(a)
             /\ a \notin Range(BlockedOn(Storage, TOKEN_ID, Today))
             /\ amount < CurrentLimits.day_max_limit_for_one_address )
           => /\ out.err # DailyDeclined
              /\ out.s.DailyBlocked = DailyBlocked

(* C34: with the limits held fixed, CurrentPendingBurn and
   CurrentPendingMint are each strictly below max_pending_tx_limit in every
   reachable state, in whatever order submissions and votes are
   interleaved. *)
C34_PendingBelowLimit ==
    /\ CurrentPendingBurn < CurrentLimits.max_pending_tx_limit
    /\ CurrentPendingMint < CurrentLimits.max_pending_tx_limit

(* the funds of withdrawal m were never locked *)
NeverEscrowed(m) == Get(escrowed, m, 0) = 0

(* C35: the escrow is released only for the message it was locked for: for
   a withdrawal whose funds were never locked, no cancel_transfer and no
   confirm_transfer unlocks or burns anything, so the locked amount of every
   account stays the sum of the escrows of its own locked withdrawals. *)
C35_EscrowReleasedForOwnMessage ==
    \A m \in Withdraws : \A v \in Validators :
        NeverEscrowed(m) =>
            /\ Ledger(cancel_transfer(Storage, v, m).s) = Ledger(Storage)
            /\ Ledger(confirm_transfer(Storage, v, m).s) = Ledger(Storage)

(* message ids for which no proposal was ever created *)
UnknownIds == VotedIds \ DOMAIN TransferId

(* the call `out` changed no existing proposal, no recorded vote on one, no
   message and nothing on the ledger, and created no message record *)
ProposalsUntouched(out) ==
    /\ \A p \in DOMAIN BridgeTransfers :
           /\ out.s.BridgeTransfers[p] = BridgeTransfers[p]
           /\ \A v \in Validators :
                  <<p, v>> \in out.s.ValidatorVotes <=> <<p, v>> \in ValidatorVotes
    /\ out.s.TransferMessages = TransferMessages
    /\ Ledger(out.s) = Ledger(Storage)

(* C36: approve_transfer, confirm_transfer and cancel_transfer called by a
   validator with a message id for which no proposal was ever created change
   neither the votes, the open flag, the recorded votes nor the message of
   any existing proposal (proposal 0 in particular), have no effect on the
   ledger and create no message record. *)
C36_UnknownIdChangesNothing ==
    \A id \in UnknownIds : \A v \in Validators :
        /\ ProposalsUntouched(approve_transfer(Storage, v, id))
        /\ ProposalsUntouched(confirm_transfer(Storage, v, id))
        /\ ProposalsUntouched(cancel_transfer(Storage, v, id))

(* amounts of a multi_signed_mint call: the one of the stored deposit and
   another one within the limits *)
MintAmounts == DepositAmounts \cup {5}

(* C37: a multi_signed_mint call whose recipient or amount differs from the
   stored deposit message of its message id is not counted as a vote for it
   and mints nothing, so that a deposit is minted only after a quorum of
   validators called multi_signed_mint with the same message id, recipient,
   token and amount. *)
C37_MintVotesAgree ==
    \A m \in Deposits : \A v \in Validators, to \in {USER1, USER2}, amount \in MintAmounts :
        LET message == TransferMessages[m]
            out == multi_signed_mint(Storage, v, m, message.eth_address, to,
                                     message.token, amount)
        IN <<to, amount>> # <<message.substrate_address, message.amount>>
           => /\ VotesOf(out.s, TransferId[m]) = VotesOf(Storage, TransferId[m])
              /\ Ledger(out.s) = Ledger(Storage)

(* the call `out` on withdrawal m burned nothing and released no escrow *)
NothingSettled(out, m) ==
    LET token == TransferMessages[m].token
        from == TransferMessages[m].substrate_address
    IN /\ balance_of(out.s, token, from) = SenderBalance(m)
       /\ total_supply(out.s, token) = Supply(m)
       /\ locked(out.s, token, from) >= SenderLocked(m)
       /\ out.s.burned = burned

(* C38: a Withdraw is burned only by a quorum of confirm_transfer calls made
   after it became Approved, and its escrow is released only by a quorum of
   cancel_transfer calls: a vote cast through approve_transfer or
   multi_signed_mint never completes a confirmation or a cancellation, that
   is, it burns nothing and releases no escrow. *)
C38_OnlyConfirmAndCancelSettle ==
    \A m \in Withdraws : \A v \in Validators :
        /\ NothingSettled(VoteByApprove(v, m), m)
        /\ NothingSettled(VoteByMint(v, m), m)

(* storage s shows no mint, no lock and no burn against the current one:
   balances and supply are the same and no locked amount is higher *)
NoMintLockBurn(s) ==
    /\ s.Balance = Balance
    /\ s.TotalSupply = TotalSupply
    /\ \A k \in DOMAIN s.Locked : s.Locked[k] <= Get(Locked, k, 0)
    /\ s.minted = minted /\ s.escrowed = escrowed /\ s.burned = burned

(* C39: while the bridge is not operational, no operation causes a mint, a
   lock or a burn on the ledger: not the four operations that test the flag,
   and not cancel_transfer, update_limits, update_validator_list,
   pause_bridge, resume_bridge or on_finalize either. *)
C39_PausedLedgerIsQuiet ==
    ~BridgeIsOperational =>
        /\ NoMintLockBurn(on_finalize(Storage))
        /\ \A v \in Validators :
               /\ NoMintLockBurn(pause_bridge(Storage, v).s)
               /\ NoMintLockBurn(resume_bridge(Storage, v).s)
               /\ NoMintLockBurn(update_limits(Storage, v, ProposedLimits).s)
               /\ \A m \in CallIds :
                      /\ NoMintLockBurn(approve_transfer(Storage, v, m).s)
                      /\ NoMintLockBurn(confirm_transfer(Storage, v, m).s)
                      /\ NoMintLockBurn(multi_signed_mint(Storage, v, m, "E1", USER2,
                                                          TOKEN_ID, 30).s)
                      /\ NoMintLockBurn(update_validator_list(Storage, v, m, 3,
                                                              ExtendedValidators).s)
               /\ \A m \in DOMAIN TransferId :
                      NoMintLockBurn(cancel_transfer(Storage, v, m).s)

(* the call `out` burned withdrawal m *)
BurnedBy(out, m) == Get(out.s.burned, m, 0) > Get(burned, m, 0)

(* C40: the daily-volume counter never underflows: whenever a burn executes
   for a Withdraw of (token, account), DailyLimits[(token, account)] is at
   least the message's amount, also when on_finalize reset the account's
   counter between the set_transfer and the burn. *)
C40_DailyVolumeCoversBurn ==
    \A m \in Withdraws : \A v \in Validators :
        BurnedBy(confirm_transfer(Storage, v, m), m)
        => Get(DailyLimits, <<TransferMessages[m].token,
                              TransferMessages[m].substrate_address>>, 0)
             >= TransferMessages[m].amount

====
